---- MODULE Spec2Model ----
(***************************************************************************)
(* Model of the Spotify ETL pipeline: the two run scripts                  *)
(* (initial_load.py, incremenal_load.py) and the operators they call       *)
(* (SpotifyDataManager, SpotifyDataFetcher, DataformManager, to_gbq).      *)
(*                                                                         *)
(* One step of the model is one request to an upstream service together    *)
(* with all the local processing of its response, or one local (pure)      *)
(* statement of main().  An identifier (album, track, artist id) is a      *)
(* string, modelled as a sequence of character codes: <<7>> is a one       *)
(* character id, <<>> the empty string.  A JSON mapping is a function      *)
(* whose DOMAIN is the set of keys present, with the extra key "jtype"     *)
(* telling a mapping ("dict") from null ("null").                          *)
(***************************************************************************)
EXTENDS Integers, Sequences, FiniteSets, TLC

VARIABLES
    script,        \* "initial" (initial_load.py) or "incremental" (incremenal_load.py)
    caller,        \* "main": operators are called by main(); "direct": one operator is called on its
                   \* own; "flatten": albums_df, drop_duplicates and cleanup are called on their own
    pc,            \* position in main() / in the running operator
    err,           \* "none" or the exception that ended the run
    artist_names,  \* argument of get_album_ids (artist_list of the script)
    world,         \* upstream catalogue: albums found per artist, which entries of a lookup are unknown
    ai,            \* get_album_ids: 1-based index of the artist of the for loop
    offset,        \* get_album_ids: offset of the while loop
    ids,           \* get_album_ids: accumulated album ids
    searchLog,     \* history: the search requests issued for the artist queried last
    queried,       \* history: indices of the artists for which a search request was issued
    broken,        \* history: indices of the artists whose pagination a failed response ended
    lastPage,      \* history: what the last search response held: "failed", "no_items", "empty", "items"
    tokenLog,      \* history: the token requests issued, with the caller and the status
    lst,           \* batch lookup in progress: its identifier list
    i,             \* batch lookup in progress: start index of the next window (range variable of chunks)
    acc,           \* batch lookup in progress: all_content / data accumulated so far
    sent,          \* history: the requests issued per batch endpoint: window and status
    assigned,      \* names of the locals of main() that have received a value
    album_ids,     \* main: album_ids
    albums_raw,    \* main: albums_data after get_album_data (list of response envelopes)
    albums_flat,   \* main: albums_data after albums_df
    albums_dedup,  \* main: albums_data after drop_duplicates
    albums_clean,  \* main: albums_data after cleanup
    albums_columns,\* main: the column index of albums_data, in order
    albums_str,    \* main (incremental load): albums_data after astype(str) of its 'artists' column
    track_ids,     \* main: track_ids
    features_data, \* main: features_data
    track_data,    \* main: track_data
    artist_ids,    \* main: artist_ids
    artist_data,   \* main: artist_data
    artist_str,    \* main (incremental load): artist_data after astype(str) of its 'artist_genres' column
    prov,          \* initial load: number of provisioning steps done
    provFailed,    \* history: some provisioning step reported a failure and returned
    ti,            \* loader loop: 1-based index of the table being written
    attempts,      \* history: the table writes attempted, in order, with their outcome
    warehouse,     \* destination tables of the warehouse: table name -> contents
    compilation,   \* "unset", "none" (call failed, returned None) or "name" (a compilation result exists)
    invocation,    \* "unset", "failed" or "created"
    triggerLog,    \* history: the calls of the workflow trigger, each with the reference it was given
    run,           \* 1, or 2 in the second run of the script against the same warehouse and in
                   \* the second call of cleanup on the same frame
    firstRun,      \* history: album ids, write outcomes and warehouse at the end of the first run
    pair           \* an operator called through the class and then as the free function of
                   \* operators.py: the implementation called, the token and the kind of argument
                   \* handed over, the requests of the call so far, the upstream responses the
                   \* class call received, and (history) what the class call did

vars == <<script, caller, pc, err, artist_names, world, ai, offset, ids, searchLog, queried, broken,
          lastPage, tokenLog,
          lst, i, acc, sent, assigned, album_ids, albums_raw, albums_flat, albums_dedup,
          albums_clean, albums_columns, albums_str, track_ids, features_data, track_data, artist_ids,
          artist_data, artist_str,
          prov, provFailed, ti, attempts, warehouse, compilation, invocation, triggerLog, run,
          firstRun, pair>>

(***************************************************************************)
(* Program constants                                                       *)
(***************************************************************************)
total == 1000
PageLimit == 50
AlbumWindow == 20
FeatureWindow == 100
TrackWindow == 50
ArtistWindow == 25
table_names == <<"albums", "features", "tracks", "artist">>

(***************************************************************************)
(* Bounds of the model                                                     *)
(***************************************************************************)
MaxArtists == 2      \* longest artist_list
BigCatalog == 51     \* size of a catalogue with a full page, a partial page and empty pages
MaxLen == 205        \* longest identifier list handed directly to a batch lookup
MaxShape == 2        \* most artist credits and most tracks of an album handed directly to albums_df
MaxAlbums == 2       \* most albums handed directly to albums_df
MaxIds == 3          \* longest identifier list looked up with records that lack fields
MaxPairArtists == 1  \* longest artist_list handed to both implementations of get_album_ids

Min(a, b) == IF a < b THEN a ELSE b
Range(s) == {s[k] : k \in 1..Len(s)}

\* responses of the upstream services: a success or a failure status
Statuses == {200, 429}

(***************************************************************************)
(* JSON values                                                             *)
(***************************************************************************)
Null == [jtype |-> "null"]
IsDict(x) == x.jtype = "dict"
\* dict.get(key, default)
Get(m, k, d) == IF k \in DOMAIN m THEN m[k] ELSE d

(***************************************************************************)
(* The upstream catalogue (environment).  Every artist has world.size      *)
(* albums, the catalogues of two artists overlapping; album a has a % 3    *)
(* artist credits and 0..2 tracks of 1..3 names, neighbours share a track, *)
(* so that every combination of 0..2 credits and 0..2 tracks and repeated  *)
(* track ids occur.  world.unknown is an album id the album lookup does    *)
(* not know (0: none); with world.nulls = p > 0 every p-th entry of a      *)
(* feature, track or artist response is null.  world.defect is the kind of *)
(* malformed album response the album lookup gives: "envelope" (the body   *)
(* of the response to a window of fewer than 20 ids is not a mapping) or   *)
(* "credit" (the last of several artist credits of an album is not a       *)
(* mapping), or the field the albums lack: "nolist" (an album without      *)
(* artist credit has no artists list at all), "noid" (the first track of   *)
(* every album has no id), or "none".                                      *)
(***************************************************************************)
Defects == {"none", "envelope", "credit", "nolist", "noid"}
CatalogSizes == {0, 1, BigCatalog}
Str(n) == <<n>>
AlbumIdOf(n, j) == (n - 1) + j
NCredits(a) == a % 3
NTracks(a) == ((a + 2) \div 3) % 3
CreditId(a, c) == ((a + c) % 3) + 1
TrackIdOf(a, t) == a + t - 1
NNames(a, t) == ((a + t) % 3) + 1
TrackObject(a, t) ==
    [jtype |-> "dict", name |-> "track", id |-> Str(TrackIdOf(a, t)),
     track_number |-> t, duration_ms |-> 1500 * t,
     artists |-> [k \in 1..NNames(a, t) |-> [jtype |-> "dict", name |-> "n" \o ToString(10 * t + k)]]]
AlbumObject(a) ==
    [jtype |-> "dict", album_type |-> "album", total_tracks |-> NTracks(a),
     name |-> "album", release_date |-> "2020", label |-> "label",
     popularity |-> a % 2, id |-> Str(a),
     artists |-> [c \in 1..NCredits(a) |-> [jtype |-> "dict", id |-> Str(CreditId(a, c))]],
     tracks |-> [jtype |-> "dict", items |-> [t \in 1..NTracks(a) |-> TrackObject(a, t)]]]

\* body of a successful search response for artist n at the given offset
SearchItems(n, off) ==
    LET left == world.size - off
        cnt == IF left <= 0 THEN 0 ELSE Min(PageLimit, left)
    IN  [k \in 1..cnt |-> [id |-> Str(AlbumIdOf(n, off + k))]]
SearchBodies(n, off) ==
    { [albums |-> [items |-> SearchItems(n, off)]],
      [albums |-> [href |-> "h"]] }

(***************************************************************************)
(* Control flow of main()                                                  *)
(***************************************************************************)
\* (mutant of MainNext: the track lookup is called before the audio-feature lookup)
MainNextTracksFirst(p) ==
    CASE p = "get_token" -> "managers"
      [] p = "managers" -> "get_album_ids"
      [] p = "get_album_ids" -> "get_album_data"
      [] p = "get_album_data" -> "albums_df"
      [] p = "albums_df" -> "drop_duplicates"
      [] p = "drop_duplicates" -> "cleanup"
      [] p = "cleanup" -> "track_ids"
      [] p = "track_ids" -> "tracks_df"
      [] p = "tracks_df" -> "features_df"
      [] p = "features_df" -> "artist_ids"
      [] p = "artist_ids" -> "artists_df"
      [] p = "artists_df" -> IF script = "incremental" THEN "astype" ELSE "provision"
      [] p = "astype" -> "auth_default"
      [] p = "provision" -> "auth_default"
      [] p = "auth_default" -> "to_gbq"
      [] p = "to_gbq" -> "create_compilation_result"
      [] p = "create_compilation_result" -> "create_workflow_invocation"
      [] p = "create_workflow_invocation" -> "finished"
\* the statement of main() that follows the given one
MainNext(p) ==
    CASE p = "get_token" -> "managers"
      [] p = "managers" -> "get_album_ids"
      [] p = "get_album_ids" -> "get_album_data"
      [] p = "get_album_data" -> "albums_df"
      [] p = "albums_df" -> "drop_duplicates"
      [] p = "drop_duplicates" -> "cleanup"
      [] p = "cleanup" -> "track_ids"
      [] p = "track_ids" -> "features_df"
      [] p = "features_df" -> "tracks_df"
      [] p = "tracks_df" -> "artist_ids"
      [] p = "artist_ids" -> "artists_df"
      [] p = "artists_df" -> IF script = "incremental" THEN "astype" ELSE "provision"
      [] p = "astype" -> "auth_default"
      [] p = "provision" -> "auth_default"
      [] p = "auth_default" -> "to_gbq"
      [] p = "to_gbq" -> "create_compilation_result"
      [] p = "create_compilation_result" -> "create_workflow_invocation"
      [] p = "create_workflow_invocation" -> "finished"

\* where control goes when the operator p returns normally
\* (a direct call of albums_df is followed by drop_duplicates, as in main)
Return(p) ==
    IF \/ caller = "main"
       \/ p = "albums_df"
       \/ (caller = "flatten" /\ p = "drop_duplicates")
    THEN MainNext(p) ELSE "returned"

callVars == <<script, caller, artist_names, world, run, firstRun>>
envVars == <<callVars, pair>>
searchVars == <<ai, offset, ids, searchLog, queried, broken, lastPage>>
lookupVars == <<lst, i, acc, sent>>
albumLocals == <<album_ids, albums_raw, albums_flat, albums_dedup, albums_clean, albums_columns,
                 albums_str>>
fetchLocals == <<track_ids, features_data, track_data, artist_ids, artist_data, artist_str>>
loadVars == <<prov, provFailed, ti, attempts, warehouse, compilation, invocation, triggerLog>>

\* an exception propagates out of main(): the run ends
Raise(e) == /\ pc' = "raised"
            /\ err' = e

(***************************************************************************)
(* The two implementations of an operator.  The scripts call the methods   *)
(* of the classes; operators.py holds the same operators as functions that *)
(* take the token as a parameter.                                          *)
(***************************************************************************)
\* the scripts: the class, a granted token, lists as arguments
NoCall == [ended |-> "unset", err |-> "none", asked |-> <<>>, result |-> <<>>]
NoReplies == [token |-> <<>>, search |-> <<>>, lookup |-> <<>>]
NoPair == [on |-> FALSE, impl |-> "class", op |-> "none", token |-> "tok", arg |-> "list",
           asked |-> <<>>, heard |-> NoReplies, first |-> NoCall]

\* the entry checks of the methods of the classes: get_auth_header() raises
\* ValueError on an empty token, features_df then checks the type of its argument;
\* the manager requests its own token, and its albums_df iterates whatever it is given
EntryErrorClass(op) ==
    CASE op = "features_df" ->
            IF pair.token = "" THEN "ValueError"
            ELSE IF pair.arg # "list" THEN "TypeError" ELSE "none"
      [] op \in {"tracks_df", "artists_df"} ->
            IF pair.token = "" THEN "ValueError" ELSE "none"
      [] OTHER -> "none"
\* the entry checks of the functions: albums_df and features_df check the type of
\* their argument first, get_auth_header(token) raises ValueError on an empty token
EntryErrorFunction(op) ==
    CASE op = "features_df" ->
            IF pair.arg # "list" THEN "TypeError"
            ELSE IF pair.token = "" THEN "ValueError" ELSE "none"
      [] op = "albums_df" ->
            IF pair.arg # "list" THEN "TypeError" ELSE "none"
      [] op \in {"get_album_data", "tracks_df", "artists_df"} ->
            IF pair.token = "" THEN "ValueError" ELSE "none"
      [] OTHER -> "none"
EntryError(op) == IF pair.impl = "class" THEN EntryErrorClass(op) ELSE EntryErrorFunction(op)

\* the operators that request a token themselves
OwnTokenClass(op) == op \in {"get_album_ids", "get_album_data"}
\* (mutant of OwnTokenFunction: get_album_ids uses the token it is given)
OwnTokenFunctionGiven(op) == FALSE
\* get_album_ids(artist_names, token) overwrites its parameter with get_token()
OwnTokenFunction(op) == op = "get_album_ids"
OwnToken(op) == IF pair.impl = "class" THEN OwnTokenClass(op) ELSE OwnTokenFunction(op)

\* the call of the function is given the responses the call of the method
\* received, request by request and endpoint by endpoint
Replaying(kind) == pair.on /\ pair.impl = "function" /\ pair.heard[kind] # <<>>
StatusOf(kind) == IF Replaying(kind) THEN {Head(pair.heard[kind]).status} ELSE Statuses
\* one request and its response: the request is noted, the response is kept for
\* the second call or taken from what the first call received
Hear(kind, req, resp) ==
    pair' = IF ~pair.on THEN pair
            ELSE [pair EXCEPT !.asked = Append(@, [to |-> req[1], what |-> req[2]]),
                              !.heard[kind] = IF pair.impl = "class" THEN Append(@, resp)
                                              ELSE IF @ = <<>> THEN @ ELSE Tail(@)]

\* get_token: one POST to the identity provider, issued on behalf of `by`;
\* a status other than 200 raises ValueError, otherwise control goes on to `to`
\* (mutant of TokenFailure: the request is issued again)
TokenFailureRetry == UNCHANGED <<pc, err>>
TokenFailure == Raise("ValueError")
get_token(by, st, to) ==
    /\ tokenLog' = Append(tokenLog, [by |-> by, status |-> st])
    /\ Hear("token", <<"token", <<>>>>, [status |-> st, page |-> <<>>])
    /\ IF st # 200
       THEN TokenFailure
       ELSE pc' = to /\ err' = err

(***************************************************************************)
(* SpotifyDataManager.get_token, called by main() to build the fetcher     *)
(***************************************************************************)
GetToken ==
    /\ pc = "get_token"
    /\ \E st \in StatusOf("token") :
          /\ get_token("main", st, Return("get_token"))
          /\ assigned' = IF st = 200 THEN assigned \cup {"token"} ELSE assigned
    /\ UNCHANGED <<callVars, searchVars, lookupVars, albumLocals, fetchLocals, loadVars>>

\* main(): the warehouse and workflow managers are constructed; each constructor
\* looks up the application default credentials, which raises when there are none
Managers ==
    /\ pc = "managers"
    /\ \E found \in BOOLEAN :
          IF found THEN pc' = MainNext("managers") /\ err' = err
          ELSE Raise("DefaultCredentialsError")
    /\ UNCHANGED <<envVars, searchVars, tokenLog, lookupVars, assigned, albumLocals,
                   fetchLocals, loadVars>>

(***************************************************************************)
(* SpotifyDataManager.get_album_ids                                        *)
(***************************************************************************)
\* entry: token = self.get_token(); headers; ids = []
GetAlbumIdsCall ==
    /\ pc = "get_album_ids"
    /\ IF OwnToken("get_album_ids")
       THEN \E st \in StatusOf("token") : get_token("get_album_ids", st, "get_album_ids_loop")
       ELSE /\ pc' = "get_album_ids_loop"
            /\ UNCHANGED <<err, tokenLog, pair>>
    /\ ai' = 1
    /\ offset' = 0
    /\ ids' = <<>>
    /\ UNCHANGED <<callVars, searchLog, queried, broken, lastPage, lookupVars, assigned,
                   albumLocals, fetchLocals, loadVars>>

\* one iteration of the while loop: one search request and the handling of its response
\* (mutant of SearchFailure: the failure is raised, as the batch lookups do)
SearchFailureRaise == Raise("ValueError") /\ UNCHANGED <<ai, offset, ids, broken>>
\* the response is a failure: print and break, i.e. on to the next artist
SearchFailure ==
    /\ ai' = ai + 1
    /\ offset' = 0
    /\ ids' = ids
    /\ broken' = broken \cup {ai}
    /\ UNCHANGED <<pc, err>>

\* (mutant of SearchSuccess: a page shorter than the limit ends the artist's pagination)
SearchSuccessShort(body) ==
    LET content == body["albums"]
        page == IF "items" \in DOMAIN content
                THEN [k \in 1..Len(content["items"]) |-> content["items"][k]["id"]]
                ELSE <<>>
    IN  /\ ids' = ids \o page
        /\ IF offset + PageLimit < total /\ Len(page) = PageLimit
           THEN ai' = ai /\ offset' = offset + PageLimit
           ELSE ai' = ai + 1 /\ offset' = 0
        /\ UNCHANGED <<pc, err, broken>>
\* (mutant of SearchSuccess: a response without items ends the artist's pagination)
SearchSuccessStopOnEmpty(body) ==
    LET content == body["albums"]
        page == IF "items" \in DOMAIN content
                THEN [k \in 1..Len(content["items"]) |-> content["items"][k]["id"]]
                ELSE <<>>
    IN  /\ ids' = ids \o page
        /\ IF offset + PageLimit < total /\ page # <<>>
           THEN ai' = ai /\ offset' = offset + PageLimit
           ELSE ai' = ai + 1 /\ offset' = 0
        /\ UNCHANGED <<pc, err, broken>>
\* the response is a success: extend ids with the ids of the page, offset += 50
SearchSuccess(body) ==
    LET content == body["albums"]
        page == IF "items" \in DOMAIN content
                THEN [k \in 1..Len(content["items"]) |-> content["items"][k]["id"]]
                ELSE <<>>
    IN  /\ ids' = ids \o page
        /\ IF offset + PageLimit < total
           THEN ai' = ai /\ offset' = offset + PageLimit
           ELSE ai' = ai + 1 /\ offset' = 0
        /\ UNCHANGED <<pc, err, broken>>

\* the ids a successful search response holds
PageOf(body) ==
    LET content == body["albums"]
    IN  IF "items" \in DOMAIN content
        THEN [k \in 1..Len(content["items"]) |-> content["items"][k]["id"]]
        ELSE <<>>
\* the bodies the response may have: in the call of the function, those with
\* the album ids the call of the method was given
BodiesHeard(bodies) ==
    LET same == {b \in bodies : PageOf(b) = Head(pair.heard.search).page}
    IN  IF Replaying("search") /\ same # {} THEN same ELSE bodies

\* what a successful search response holds
PageKind(body) ==
    IF "items" \notin DOMAIN body["albums"] THEN "no_items"
    ELSE IF body["albums"]["items"] = <<>> THEN "empty" ELSE "items"

GetAlbumIdsRequest ==
    /\ pc = "get_album_ids_loop"
    /\ ai <= Len(artist_names)
    /\ offset < total
    /\ \E st \in StatusOf("search") :
          /\ searchLog' = Append(IF offset = 0 THEN <<>> ELSE searchLog,
                                 [artist |-> ai, offset |-> offset, status |-> st])
          /\ queried' = queried \cup {ai}
          /\ IF st # 200
             THEN /\ SearchFailure /\ lastPage' = "failed"
                  /\ Hear("search", <<"search", <<Str(artist_names[ai]), Str(offset)>>>>,
                          [status |-> st, page |-> <<>>])
             ELSE \E body \in BodiesHeard(SearchBodies(artist_names[ai], offset)) :
                     /\ SearchSuccess(body) /\ lastPage' = PageKind(body)
                     /\ Hear("search", <<"search", <<Str(artist_names[ai]), Str(offset)>>>>,
                             [status |-> st, page |-> PageOf(body)])
    /\ UNCHANGED <<callVars, tokenLog, lookupVars, assigned, albumLocals, fetchLocals, loadVars>>

\* the for loop is exhausted: return ids
GetAlbumIdsReturn ==
    /\ pc = "get_album_ids_loop"
    /\ ai > Len(artist_names)
    /\ album_ids' = ids
    /\ assigned' = assigned \cup {"album_ids"}
    /\ pc' = Return("get_album_ids")
    /\ searchLog' = <<>>
    /\ broken' = {}
    /\ lastPage' = "none"
    /\ UNCHANGED <<envVars, err, ai, offset, ids, queried, tokenLog, lookupVars, albums_raw, albums_flat,
                   albums_dedup, albums_clean, albums_columns, albums_str, fetchLocals, loadVars>>

(***************************************************************************)
(* Widening of a list column (used by cleanup and by artists_df)           *)
(***************************************************************************)
NaN == "NaN"
RECURSIVE MaxOf(_)
MaxOf(S) == IF S = {} THEN 0
            ELSE LET x == CHOOSE y \in S : TRUE
                     m == MaxOf(S \ {x})
                 IN  IF x > m THEN x ELSE m

\* (mutant of WideColumns: the columns are numbered from 1)
WideColumnsOneBased(rows, col, prefix, k) ==
    LET W == MaxOf({Len(rows[r][col]) : r \in 1..Len(rows)})
    IN  [c \in {prefix \o ToString(n) : n \in 1..W} |->
            LET n == CHOOSE n \in 1..W : prefix \o ToString(n) = c
            IN  IF n <= Len(rows[k][col]) THEN rows[k][col][n] ELSE NaN]
\* df[col].apply(pd.Series) renamed with the prefix: one column per index of the
\* longest list, NaN where the row's list is shorter
WideColumns(rows, col, prefix, k) ==
    LET W == MaxOf({Len(rows[r][col]) : r \in 1..Len(rows)})
    IN  [c \in {prefix \o ToString(n) : n \in 0..(W - 1)} |->
            LET n == CHOOSE n \in 0..(W - 1) : prefix \o ToString(n) = c
            IN  IF n < Len(rows[k][col]) THEN rows[k][col][n + 1] ELSE NaN]

(***************************************************************************)
(* Batch lookups: chunks() and the four lookups built on it                *)
(***************************************************************************)
\* (mutant of Window: the slice ends one element late, l[k : k + n + 1])
WindowLate(l, k, n) == SubSeq(l, k + 1, Min(k + n + 1, Len(l)))
\* the window chunks(l, n) yields for range value k: l[k : k + n]
Window(l, k, n) == SubSeq(l, k + 1, Min(k + n, Len(l)))

\* a response entry is null at position k of its list
NullAt(k) == world.nulls > 0 /\ k % world.nulls = 0

\* bodies of the successful responses of the four batch endpoints
\* the album as the response holds it
Without(m, key) == [k \in (DOMAIN m) \ {key} |-> m[k]]
Delivered(album) ==
    CASE world.defect = "credit" /\ Len(album.artists) > 1 ->
            [album EXCEPT !.artists = [@ EXCEPT ![Len(@)] = Null]]
      [] world.defect = "nolist" /\ album.artists = <<>> ->
            Without(album, "artists")
      [] world.defect = "noid" /\ album.tracks.items # <<>> ->
            [album EXCEPT !.tracks.items = [@ EXCEPT ![1] = Without(@, "id")]]
      [] OTHER -> album
AlbumsBody(chunk) ==
    IF world.defect = "envelope" /\ Len(chunk) < AlbumWindow
    THEN Null
    ELSE [jtype |-> "dict",
          albums |-> [k \in 1..Len(chunk) |->
                        IF chunk[k] = <<>> \/ chunk[k] = Str(world.unknown)
                        THEN Null ELSE Delivered(AlbumObject(chunk[k][1]))]]
FeaturesBody(chunk) ==
    [audio_features |-> [k \in 1..Len(chunk) |->
        IF NullAt(k) THEN Null ELSE [jtype |-> "dict", id |-> chunk[k], tempo |-> 120]]]
\* with world.defect = "sparse" the records of a track or artist response are
\* mappings without fields; every second artist record has a followers object
\* without a total
Sparse == world.defect = "sparse"
TracksBody(chunk) ==
    [tracks |-> [k \in 1..Len(chunk) |->
        IF NullAt(k) THEN Null
        ELSE IF Sparse THEN [jtype |-> "dict"]
        ELSE [jtype |-> "dict", id |-> chunk[k], popularity |-> 50, explicit |-> TRUE]]]
ArtistsBody(chunk) ==
    [artists |-> [k \in 1..Len(chunk) |->
        IF NullAt(k) THEN Null
        ELSE IF Sparse /\ k % 2 = 1 THEN [jtype |-> "dict"]
        ELSE IF Sparse THEN [jtype |-> "dict", followers |-> [href |-> "h"]]
        ELSE [jtype |-> "dict", id |-> chunk[k], name |-> "artist", popularity |-> 60,
              genres |-> [g \in 1..(k % 3) |-> "genre"], followers |-> [total |-> 1000]]]]

\* the columns a response object gives its row in pd.DataFrame(list of dicts)
AsRow(obj) == [k \in (DOMAIN obj) \ {"jtype"} |-> obj[k]]

\* the rows one response adds to the accumulator of each lookup
FeatureRows(content) ==
    LET audio_features == Get(content, "audio_features", <<>>)
        kept == SelectSeq(audio_features, IsDict)
    IN  [k \in 1..Len(kept) |-> AsRow(kept[k])]
TrackRows(content) ==
    LET kept == SelectSeq(content["tracks"], IsDict)
    IN  [k \in 1..Len(kept) |->
           [id |-> Get(kept[k], "id", <<>>),
            track_popularity |-> Get(kept[k], "popularity", 0),
            explicit |-> Get(kept[k], "explicit", FALSE)]]
ArtistRows(content) ==
    LET kept == SelectSeq(content["artists"], IsDict)
    IN  [k \in 1..Len(kept) |->
           [id |-> Get(kept[k], "id", <<>>),
            name |-> Get(kept[k], "name", ""),
            artist_popularity |-> Get(kept[k], "popularity", 0),
            artist_genres |-> Get(kept[k], "genres", <<>>),
            followers |-> IF "followers" \in DOMAIN kept[k]
                          THEN Get(kept[k]["followers"], "total", 0) ELSE 0]]

\* entry of a lookup: the accumulator is emptied and chunks() starts at 0
StartLookup(l) == /\ lst' = l
                  /\ i' = 0
                  /\ acc' = <<>>

\* (mutant of RangeNext: the range steps one too far)
RangeNextSkip(k, n) == k + n + 1
\* the next value of range(0, len(lst), n) after k
RangeNext(k, n) == k + n

\* (mutant of LookupFailure: break out of the loop as get_album_ids does, and
\* return what was accumulated)
LookupFailureBreak == i' = Len(lst) /\ UNCHANGED <<acc, pc, err>>
\* a non-200 status of a lookup request raises ValueError
LookupFailure == Raise("ValueError") /\ UNCHANGED <<i, acc>>

\* one iteration of "for chunk in chunks(lst, n)": one request for the window at i;
\* newAcc is the accumulator extended with what the successful response holds
LookupRequest(ep, n, newAcc) ==
    /\ i < Len(lst)
    /\ \E st \in StatusOf("lookup") :
          /\ sent' = [sent EXCEPT ![ep] = Append(@, [ids |-> Window(lst, i, n), status |-> st])]
          /\ Hear("lookup", <<ep, Window(lst, i, n)>>, [status |-> st, page |-> <<>>])
          /\ IF st # 200
             THEN LookupFailure
             ELSE /\ acc' = newAcc
                  /\ i' = RangeNext(i, n)
                  /\ UNCHANGED <<pc, err>>
    /\ lst' = lst
    /\ UNCHANGED tokenLog

AddEnvelope(a, content) == Append(a, content)
AddFeatures(a, content) == a \o FeatureRows(content)
AddTracks(a, content) == a \o TrackRows(content)
AddArtists(a, content) == a \o ArtistRows(content)

(***************************************************************************)
(* SpotifyDataManager.get_album_data                                       *)
(***************************************************************************)
\* entry: token = self.get_token(); headers; all_content = [] (the function:
\* headers = get_auth_header(token) of the token it is given)
GetAlbumDataCall ==
    /\ pc = "get_album_data"
    /\ IF OwnToken("get_album_data")
       THEN \E st \in StatusOf("token") :
               /\ get_token("get_album_data", st, "get_album_data_loop")
               /\ IF st = 200 THEN StartLookup(album_ids) ELSE UNCHANGED <<lst, i, acc>>
       ELSE /\ UNCHANGED <<tokenLog, pair>>
            /\ IF EntryError("get_album_data") # "none"
               THEN Raise(EntryError("get_album_data")) /\ UNCHANGED <<lst, i, acc>>
               ELSE pc' = "get_album_data_loop" /\ err' = err /\ StartLookup(album_ids)
    /\ UNCHANGED <<callVars, searchVars, sent, assigned, albumLocals, fetchLocals, loadVars>>

GetAlbumDataRequest ==
    /\ pc = "get_album_data_loop"
    /\ LookupRequest("albums", AlbumWindow,
                     AddEnvelope(acc, AlbumsBody(Window(lst, i, AlbumWindow))))
    /\ UNCHANGED <<callVars, searchVars, assigned, albumLocals, fetchLocals, loadVars>>

GetAlbumDataReturn ==
    /\ pc = "get_album_data_loop"
    /\ i >= Len(lst)
    /\ albums_raw' = acc
    /\ assigned' = assigned \cup {"albums_raw"}
    /\ pc' = Return("get_album_data")
    /\ UNCHANGED <<envVars, err, searchVars, tokenLog, lookupVars, album_ids, albums_flat,
                   albums_dedup, albums_clean, albums_columns, albums_str, fetchLocals, loadVars>>

(***************************************************************************)
(* SpotifyDataFetcher.features_df                                          *)
(***************************************************************************)
\* entry: headers = self.get_auth_header(); isinstance check; all_content = []
FeaturesDfCall ==
    /\ pc = "features_df"
    /\ IF EntryError("features_df") # "none"
       THEN Raise(EntryError("features_df")) /\ UNCHANGED <<lst, i, acc>>
       ELSE pc' = "features_df_loop" /\ err' = err /\ StartLookup(track_ids)
    /\ UNCHANGED <<envVars, searchVars, tokenLog, sent, assigned, albumLocals, fetchLocals, loadVars>>

FeaturesDfRequest ==
    /\ pc = "features_df_loop"
    /\ LookupRequest("features", FeatureWindow,
                     AddFeatures(acc, FeaturesBody(Window(lst, i, FeatureWindow))))
    /\ UNCHANGED <<callVars, searchVars, assigned, albumLocals, fetchLocals, loadVars>>

FeaturesDfReturn ==
    /\ pc = "features_df_loop"
    /\ i >= Len(lst)
    /\ features_data' = acc
    /\ assigned' = assigned \cup {"features_data"}
    /\ pc' = Return("features_df")
    /\ UNCHANGED <<envVars, err, searchVars, tokenLog, lookupVars, albumLocals, track_ids,
                   track_data, artist_ids, artist_data, artist_str, loadVars>>

(***************************************************************************)
(* SpotifyDataFetcher.tracks_df                                            *)
(***************************************************************************)
TracksDfCall ==
    /\ pc = "tracks_df"
    /\ IF EntryError("tracks_df") # "none"
       THEN Raise(EntryError("tracks_df")) /\ UNCHANGED <<lst, i, acc>>
       ELSE pc' = "tracks_df_loop" /\ err' = err /\ StartLookup(track_ids)
    /\ UNCHANGED <<envVars, searchVars, tokenLog, sent, assigned, albumLocals, fetchLocals, loadVars>>

\* (mutant of TracksDfRequest: the window of features_df)
TracksDfRequestWide ==
    /\ pc = "tracks_df_loop"
    /\ LookupRequest("tracks", FeatureWindow,
                     AddTracks(acc, TracksBody(Window(lst, i, FeatureWindow))))
    /\ UNCHANGED <<callVars, searchVars, assigned, albumLocals, fetchLocals, loadVars>>
\* one iteration of the loop over chunks(track_ids, 50)
TracksDfRequest ==
    /\ pc = "tracks_df_loop"
    /\ LookupRequest("tracks", TrackWindow,
                     AddTracks(acc, TracksBody(Window(lst, i, TrackWindow))))
    /\ UNCHANGED <<callVars, searchVars, assigned, albumLocals, fetchLocals, loadVars>>

TracksDfReturn ==
    /\ pc = "tracks_df_loop"
    /\ i >= Len(lst)
    /\ track_data' = acc
    /\ assigned' = assigned \cup {"track_data"}
    /\ pc' = Return("tracks_df")
    /\ UNCHANGED <<envVars, err, searchVars, tokenLog, lookupVars, albumLocals, track_ids,
                   features_data, artist_ids, artist_data, artist_str, loadVars>>

(***************************************************************************)
(* SpotifyDataFetcher.artists_df                                           *)
(***************************************************************************)
ArtistsDfCall ==
    /\ pc = "artists_df"
    /\ IF EntryError("artists_df") # "none"
       THEN Raise(EntryError("artists_df")) /\ UNCHANGED <<lst, i, acc>>
       ELSE pc' = "artists_df_loop" /\ err' = err /\ StartLookup(artist_ids)
    /\ UNCHANGED <<envVars, searchVars, tokenLog, sent, assigned, albumLocals, fetchLocals, loadVars>>

ArtistsDfRequest ==
    /\ pc = "artists_df_loop"
    /\ LookupRequest("artists", ArtistWindow,
                     AddArtists(acc, ArtistsBody(Window(lst, i, ArtistWindow))))
    /\ UNCHANGED <<callVars, searchVars, assigned, albumLocals, fetchLocals, loadVars>>

\* after the loop: df = pd.DataFrame(data); df["artist_genres"] raises KeyError when
\* data is empty (a frame without columns)
ArtistsDfReturn ==
    /\ pc = "artists_df_loop"
    /\ i >= Len(lst)
    /\ IF acc = <<>>
       THEN Raise("KeyError") /\ UNCHANGED <<artist_data, assigned>>
       ELSE /\ artist_data' = [k \in 1..Len(acc) |->
                                  acc[k] @@ WideColumns(acc, "artist_genres", "genre_", k)]
            /\ assigned' = assigned \cup {"artist_data"}
            /\ pc' = Return("artists_df")
            /\ err' = err
    /\ UNCHANGED <<envVars, searchVars, tokenLog, lookupVars, albumLocals, track_ids,
                   features_data, track_data, artist_ids, artist_str, loadVars>>

(***************************************************************************)
(* SpotifyDataManager.albums_df                                            *)
(***************************************************************************)
RECURSIVE ConcatAll(_)
ConcatAll(ss) == IF ss = <<>> THEN <<>> ELSE Head(ss) \o ConcatAll(Tail(ss))

\* (mutant of TrackInfo: the artist-name list is taken from the album-level credit)
TrackInfoCreditName(album, artist, item) ==
    [track_name |-> Get(item, "name", ""),
     track_id |-> Get(item, "id", <<>>),
     track_number |-> Get(item, "track_number", 0),
     duration_ms |-> Get(item, "duration_ms", 0),
     artists |-> <<Get(artist, "name", "")>>,
     album_type |-> Get(album, "album_type", ""),
     total_tracks |-> Get(album, "total_tracks", 0),
     album_name |-> Get(album, "name", ""),
     release_date |-> Get(album, "release_date", ""),
     label |-> Get(album, "label", ""),
     album_popularity |-> Get(album, "popularity", 0),
     album_id |-> Get(album, "id", <<>>),
     artist_id |-> Get(artist, "id", <<>>)]
\* the row built for one (album, artist credit, track) triple
TrackInfo(album, artist, item) ==
    LET credits == Get(item, "artists", <<>>)
    IN  [track_name |-> Get(item, "name", ""),
         track_id |-> Get(item, "id", <<>>),
         track_number |-> Get(item, "track_number", 0),
         duration_ms |-> Get(item, "duration_ms", 0),
         artists |-> [k \in 1..Len(credits) |-> credits[k]["name"]],
         album_type |-> Get(album, "album_type", ""),
         total_tracks |-> Get(album, "total_tracks", 0),
         album_name |-> Get(album, "name", ""),
         release_date |-> Get(album, "release_date", ""),
         label |-> Get(album, "label", ""),
         album_popularity |-> Get(album, "popularity", 0),
         album_id |-> Get(album, "id", <<>>),
         artist_id |-> Get(artist, "id", <<>>)]

\* (mutant of AlbumRows: an album without artist credit gives its tracks with an empty artist_id)
AlbumRowsUncredited(album) ==
    LET found == Get(album, "artists", <<>>)
        credits == IF found = <<>> THEN <<[jtype |-> "dict"]>> ELSE found
        items == Get(Get(album, "tracks", [jtype |-> "dict"]), "items", <<>>)
        M == Len(items)
    IN  [r \in 1..(Len(credits) * M) |->
            TrackInfo(album, credits[((r - 1) \div M) + 1], items[((r - 1) % M) + 1])]
\* (mutant of AlbumRows: the artist credits are gone through from the last to the first)
AlbumRowsLastCreditFirst(album) ==
    LET credits == Get(album, "artists", <<>>)
        items == Get(Get(album, "tracks", [jtype |-> "dict"]), "items", <<>>)
        M == Len(items)
    IN  [r \in 1..(Len(credits) * M) |->
            TrackInfo(album, credits[Len(credits) - ((r - 1) \div M)], items[((r - 1) % M) + 1])]
\* (mutant of AlbumRows: tracks in the outer loop, artist credits in the inner loop)
AlbumRowsTracksOuter(album) ==
    LET credits == Get(album, "artists", <<>>)
        items == Get(Get(album, "tracks", [jtype |-> "dict"]), "items", <<>>)
        N == Len(credits)
    IN  [r \in 1..(N * Len(items)) |->
            TrackInfo(album, credits[((r - 1) % N) + 1], items[((r - 1) \div N) + 1])]
\* the rows of one album: artist credits in the outer loop, tracks in the inner loop
AlbumRows(album) ==
    LET credits == Get(album, "artists", <<>>)
        items == Get(Get(album, "tracks", [jtype |-> "dict"]), "items", <<>>)
        M == Len(items)
    IN  [r \in 1..(Len(credits) * M) |->
            TrackInfo(album, credits[((r - 1) \div M) + 1], items[((r - 1) % M) + 1])]

EnvelopeRows(data_item) ==
    LET albums == Get(data_item, "albums", <<>>)
    IN  ConcatAll([k \in 1..Len(albums) |-> AlbumRows(albums[k])])

\* a track-level artist credit of the album has no "name": artist["name"] raises KeyError
NameMissing(album) ==
    LET items == Get(Get(album, "tracks", [jtype |-> "dict"]), "items", <<>>)
    IN  \E t \in 1..Len(items) :
           \E k \in 1..Len(Get(items[t], "artists", <<>>)) :
              "name" \notin DOMAIN Get(items[t], "artists", <<>>)[k]

\* (mutant of AlbumError: a null album entry is skipped)
AlbumErrorSkipNull(album) ==
    IF ~IsDict(album) THEN "none"
    ELSE LET credits == Get(album, "artists", <<>>)
         IN  IF credits = <<>> THEN "none"
             ELSE IF ~IsDict(credits[1]) THEN "TypeError"
             ELSE IF NameMissing(album) THEN "KeyError"
             ELSE IF \E c \in 1..Len(credits) : ~IsDict(credits[c]) THEN "TypeError"
             ELSE "none"
\* the exception the loops of albums_df raise at this album entry, if any: the
\* isinstance check of the album, then for each artist credit its isinstance check
\* and the track loop, which reads the name of every track-level credit
AlbumError(album) ==
    IF ~IsDict(album) THEN "TypeError"
    ELSE LET credits == Get(album, "artists", <<>>)
         IN  IF credits = <<>> THEN "none"
             ELSE IF ~IsDict(credits[1]) THEN "TypeError"
             ELSE IF NameMissing(album) THEN "KeyError"
             ELSE IF \E c \in 1..Len(credits) : ~IsDict(credits[c]) THEN "TypeError"
             ELSE "none"

EnvelopeErrors(data_item) ==
    IF ~IsDict(data_item) THEN <<"TypeError">>
    ELSE [k \in 1..Len(Get(data_item, "albums", <<>>)) |->
             AlbumError(Get(data_item, "albums", <<>>)[k])]

\* the exception that ends albums_df(data): that of the first entry that raises one
AlbumsDfError(data) ==
    LET raised == SelectSeq(ConcatAll([e \in 1..Len(data) |-> EnvelopeErrors(data[e])]),
                            LAMBDA x : x # "none")
    IN  IF raised = <<>> THEN "none" ELSE raised[1]

albums_df(data) == ConcatAll([e \in 1..Len(data) |-> EnvelopeRows(data[e])])

\* the keys of a track_info dict in insertion order: the columns of the frame
AlbumColumns ==
    <<"track_name", "track_id", "track_number", "duration_ms", "artists", "album_type",
      "total_tracks", "album_name", "release_date", "label", "album_popularity",
      "album_id", "artist_id">>

\* albums_df and pd.DataFrame(track_objects): a frame without columns when there is no row
AlbumsDf ==
    /\ pc = "albums_df"
    /\ IF EntryError("albums_df") # "none"
       THEN Raise(EntryError("albums_df")) /\ UNCHANGED <<albums_flat, albums_columns, assigned>>
       ELSE IF AlbumsDfError(albums_raw) # "none"
       THEN Raise(AlbumsDfError(albums_raw)) /\ UNCHANGED <<albums_flat, albums_columns, assigned>>
       ELSE /\ albums_flat' = albums_df(albums_raw)
            /\ albums_columns' = IF albums_df(albums_raw) = <<>> THEN <<>> ELSE AlbumColumns
            /\ assigned' = assigned \cup {"albums_flat"}
            /\ pc' = Return("albums_df")
            /\ err' = err
    /\ UNCHANGED <<envVars, searchVars, tokenLog, lookupVars, album_ids, albums_raw,
                   albums_dedup, albums_clean, albums_str, fetchLocals, loadVars>>

(***************************************************************************)
(* albums_data.drop_duplicates(subset=["track_id"])                        *)
(***************************************************************************)
\* the rows at the given positions, in that order
RowsAt(rows, pos) == [n \in 1..Len(pos) |-> rows[pos[n]]]
Positions(rows) == [k \in 1..Len(rows) |-> k]

\* (mutant of drop_duplicates: keep='last')
drop_duplicates_last(rows) ==
    RowsAt(rows, SelectSeq(Positions(rows),
                           LAMBDA k : \A j \in (k + 1)..Len(rows) :
                                         rows[j].track_id # rows[k].track_id))
\* (mutant of drop_duplicates: rows without a track id are all kept)
drop_duplicates_keep_empty(rows) ==
    RowsAt(rows, SelectSeq(Positions(rows),
                           LAMBDA k : \/ rows[k].track_id = <<>>
                                      \/ \A j \in 1..(k - 1) :
                                            rows[j].track_id # rows[k].track_id))
\* keep='first' is the default: a row is dropped when an earlier row has its track_id
drop_duplicates(rows) ==
    RowsAt(rows, SelectSeq(Positions(rows),
                           LAMBDA k : \A j \in 1..(k - 1) :
                                         rows[j].track_id # rows[k].track_id))

DropDuplicates ==
    /\ pc = "drop_duplicates"
    /\ albums_dedup' = drop_duplicates(albums_flat)
    /\ assigned' = assigned \cup {"albums_dedup"}
    /\ pc' = Return("drop_duplicates")
    /\ UNCHANGED <<envVars, err, searchVars, tokenLog, lookupVars, album_ids, albums_raw,
                   albums_flat, albums_clean, albums_columns, albums_str, fetchLocals, loadVars>>

(***************************************************************************)
(* SpotifyDataFetcher.cleanup                                              *)
(***************************************************************************)
\* characters removed from artist_id: ' ( )
Stripped == {39, 40, 41}
StripId(id) == SelectSeq(id, LAMBDA c : c \notin Stripped)

Title(name) == CASE name = "track" -> "Track"
                 [] name = "album" -> "Album"
                 [] OTHER -> name
\* pd.to_datetime(errors="coerce"): a date string is parsed, a parsed date stays,
\* anything else becomes NaT
ToDatetime(d) == IF d \in {"2020", "2020-01-01"} THEN "2020-01-01" ELSE "NaT"

cleanup(rows) ==
    [k \in 1..Len(rows) |->
        [rows[k] EXCEPT !.artist_id = StripId(@),
                        !.track_name = Title(@),
                        !.album_name = Title(@),
                        !.release_date = ToDatetime(@)]
        @@ WideColumns(rows, "artists", "artist_", k)
        @@ [duration_sec |-> <<rows[k].duration_ms \div 1000, rows[k].duration_ms % 1000>>]]

\* the names of the columns df[col].apply(pd.Series) gives, renamed with the prefix
WideNames(rows, col, prefix) ==
    [n \in 1..MaxOf({Len(rows[r][col]) : r \in 1..Len(rows)}) |-> prefix \o ToString(n - 1)]
\* pd.concat([df, other], axis=1): the columns of other are put after those of df,
\* whatever their names
concat_columns(cols, other) == cols \o other
\* df[c] = values: a new column at the end, or new values for the existing column
assign_column(cols, c) == IF c \in Range(cols) THEN cols ELSE Append(cols, c)
\* the column index of the frame that cleanup returns
cleanup_columns(cols, rows) ==
    assign_column(concat_columns(cols, WideNames(rows, "artists", "artist_")), "duration_sec")

\* df["artist_id"] raises KeyError on the frame without columns that albums_df
\* builds from an empty list of rows
Cleanup ==
    /\ pc = "cleanup"
    /\ IF albums_dedup = <<>>
       THEN Raise("KeyError") /\ UNCHANGED <<albums_clean, albums_columns, assigned>>
       ELSE /\ albums_clean' = cleanup(albums_dedup)
            /\ albums_columns' = cleanup_columns(albums_columns, albums_dedup)
            /\ assigned' = assigned \cup {"albums_clean"}
            /\ pc' = Return("cleanup")
            /\ err' = err
    /\ UNCHANGED <<envVars, searchVars, tokenLog, lookupVars, album_ids, albums_raw,
                   albums_flat, albums_dedup, albums_str, fetchLocals, loadVars>>

\* cleanup is called again, on the frame it returned
CleanupAgain ==
    /\ caller = "flatten"
    /\ pc = "returned"
    /\ run = 1
    /\ run' = 2
    /\ albums_dedup' = albums_clean
    /\ pc' = "cleanup"
    /\ UNCHANGED <<script, caller, artist_names, world, firstRun, pair, err, searchVars, tokenLog,
                   lookupVars, assigned, album_ids, albums_raw, albums_flat, albums_clean,
                   albums_columns, albums_str, fetchLocals, loadVars>>

(***************************************************************************)
(* main(): the statements between the operator calls                       *)
(***************************************************************************)
\* Series.unique(): the values in order of first appearance
Unique(s) == RowsAt(s, SelectSeq(Positions(s), LAMBDA k : \A j \in 1..(k - 1) : s[j] # s[k]))

\* track_ids = albums_data['track_id'].to_list()
TrackIds ==
    /\ pc = "track_ids"
    /\ track_ids' = [k \in 1..Len(albums_clean) |-> albums_clean[k].track_id]
    /\ assigned' = assigned \cup {"track_ids"}
    /\ pc' = MainNext("track_ids")
    /\ UNCHANGED <<envVars, err, searchVars, tokenLog, lookupVars, albumLocals,
                   features_data, track_data, artist_ids, artist_data, artist_str, loadVars>>

\* artist_ids = albums_data['artist_id'].unique()
ArtistIds ==
    /\ pc = "artist_ids"
    /\ artist_ids' = Unique([k \in 1..Len(albums_clean) |-> albums_clean[k].artist_id])
    /\ assigned' = assigned \cup {"artist_ids"}
    /\ pc' = MainNext("artist_ids")
    /\ UNCHANGED <<envVars, err, searchVars, tokenLog, lookupVars, albumLocals,
                   track_ids, features_data, track_data, artist_data, artist_str, loadVars>>

\* str(list): "['a', 'b']"
RECURSIVE ReprItems(_)
ReprItems(l) == IF l = <<>> THEN ""
                ELSE IF Len(l) = 1 THEN "'" \o l[1] \o "'"
                ELSE "'" \o l[1] \o "', " \o ReprItems(Tail(l))
ReprList(l) == "[" \o ReprItems(l) \o "]"

\* incremental load: the two astype(str) statements
Astype ==
    /\ pc = "astype"
    /\ artist_str' = [k \in 1..Len(artist_data) |->
                         [artist_data[k] EXCEPT !.artist_genres = ReprList(@)]]
    /\ albums_str' = [k \in 1..Len(albums_clean) |->
                         [albums_clean[k] EXCEPT !.artists = ReprList(@)]]
    /\ pc' = MainNext("astype")
    /\ UNCHANGED <<envVars, err, searchVars, tokenLog, lookupVars, assigned, album_ids, albums_raw,
                   albums_flat, albums_dedup, albums_clean, albums_columns, track_ids, features_data,
                   track_data, artist_ids, artist_data, loadVars>>

(***************************************************************************)
(* initial load: provisioning of the warehouse and of the workspace        *)
(***************************************************************************)
ProvisionSteps ==
    <<"create_bigquery_dataset", "create_bigquery_dataset",
      "create_bigquery_table", "create_bigquery_table", "create_bigquery_table",
      "create_bigquery_table", "create_bigquery_table", "create_bigquery_table",
      "create_bigquery_table", "create_bigquery_table",
      "create_dataform_repository", "create_dataform_workspace",
      "insert_logic_to_workspace", "install_npm_packages_in_workspace",
      "commit_changes_to_workspace", "push_git_commits_to_default_branch">>

\* the calls that do part of their work outside a try block (the credential
\* refresh and the POST of the dataset, the client of the table, the open() of
\* a file to insert), or catch only the API errors (the repository): an
\* exception of that part leaves main()
UncaughtSteps == {"create_bigquery_dataset", "create_bigquery_table",
                  "create_dataform_repository", "insert_logic_to_workspace"}

\* what one provisioning call can do: succeed ("ok"), report the failure of its
\* request and return ("failed"), or let an exception out ("raised")
StepOutcomes(step) ==
    IF step \in UncaughtSteps THEN {"ok", "failed", "raised"} ELSE {"ok", "failed"}

\* one provisioning call of main()
Provision ==
    /\ pc = "provision"
    /\ prov < Len(ProvisionSteps)
    /\ prov' = prov + 1
    /\ \E outcome \in StepOutcomes(ProvisionSteps[prov + 1]) :
          IF outcome = "raised"
          THEN Raise("Exception") /\ provFailed' = provFailed
          ELSE /\ pc' = IF prov + 1 = Len(ProvisionSteps) THEN MainNext("provision") ELSE pc
               /\ err' = err
               /\ provFailed' = (provFailed \/ outcome = "failed")
    /\ UNCHANGED <<envVars, searchVars, tokenLog, lookupVars, assigned, albumLocals,
                   fetchLocals, ti, attempts, warehouse, compilation, invocation, triggerLog>>

\* credentials, project = google.auth.default()
AuthDefault ==
    /\ pc = "auth_default"
    /\ \E found \in BOOLEAN :
          IF found THEN pc' = MainNext("auth_default") /\ err' = err
          ELSE Raise("DefaultCredentialsError")
    /\ UNCHANGED <<envVars, searchVars, tokenLog, lookupVars, assigned, albumLocals,
                   fetchLocals, loadVars>>

(***************************************************************************)
(* main(): the loader loop over zip(dfs, table_names)                      *)
(***************************************************************************)
\* dfs = [albums_data, features_data, track_data, artist_data]
dfs == IF script = "incremental"
       THEN <<albums_str, features_data, track_data, artist_str>>
       ELSE <<albums_clean, features_data, track_data, artist_data>>

\* (mutant of if_exists_replace: if_exists='append')
if_exists_append(old, new) == old \o new
\* to_gbq(if_exists='replace'): the destination table is dropped and created again
\* from the dataframe
if_exists_replace(old, new) == new

\* (mutant of AfterWrite: the exception of a failed write is not caught)
AfterWriteUncaught(k, ok) ==
    IF ~ok THEN "raised" ELSE IF k = Len(table_names) THEN MainNext("to_gbq") ELSE "to_gbq"
\* where the loader loop goes after the write of table number k, which succeeded
\* (ok) or raised an exception that the except clause caught and logged
AfterWrite(k, ok) == IF k = Len(table_names) THEN MainNext("to_gbq") ELSE "to_gbq"

\* one iteration: to_gbq(if_exists='replace') inside try/except Exception
ToGbq ==
    /\ pc = "to_gbq"
    /\ ti <= Len(table_names)
    /\ \E ok \in BOOLEAN :
          /\ attempts' = Append(attempts, [table |-> table_names[ti], ok |-> ok])
          /\ warehouse' = IF ok THEN [warehouse EXCEPT ![table_names[ti]] =
                                                    if_exists_replace(@, dfs[ti])]
                          ELSE warehouse
          /\ pc' = AfterWrite(ti, ok)
    /\ ti' = ti + 1
    /\ UNCHANGED <<envVars, err, searchVars, tokenLog, lookupVars, assigned, albumLocals,
                   fetchLocals, prov, provFailed, compilation, invocation, triggerLog>>

(***************************************************************************)
(* DataformManager: the workflow trigger                                   *)
(***************************************************************************)
\* (mutant of AfterCompilation: the invocation is skipped when there is no compilation result)
AfterCompilationGuarded(name) ==
    IF name = "none" THEN "finished" ELSE MainNext("create_compilation_result")
\* main() passes whatever create_compilation_result returned, None included, to
\* create_workflow_invocation
AfterCompilation(name) == MainNext("create_compilation_result")

\* create_compilation_result: the compilation result is requested for git_commitish
\* "main"; an exception of the request is caught and None is returned
CreateCompilationResult ==
    /\ pc = "create_compilation_result"
    /\ \E ok \in BOOLEAN : /\ compilation' = (IF ok THEN "name" ELSE "none")
                           /\ pc' = AfterCompilation(IF ok THEN "name" ELSE "none")
    /\ triggerLog' = Append(triggerLog, [op |-> "create_compilation_result", ref |-> "main"])
    /\ UNCHANGED <<envVars, err, searchVars, tokenLog, lookupVars, assigned, albumLocals,
                   fetchLocals, prov, provFailed, ti, attempts, warehouse, invocation>>

\* (mutant of AfterInvocation: the exception of a failed request is not caught)
AfterInvocationUncaught(ok) ==
    IF ok THEN MainNext("create_workflow_invocation") ELSE "raised"
\* where main() goes after create_workflow_invocation, whose request succeeded (ok)
\* or raised an exception that the except clause caught and printed
AfterInvocation(ok) == MainNext("create_workflow_invocation")

\* create_workflow_invocation(compilation_result_name): the reference is assigned to
\* the message (None leaves the field empty) and the invocation is requested; an
\* exception of the request is caught and None is returned
CreateWorkflowInvocation ==
    /\ pc = "create_workflow_invocation"
    /\ \E ok \in BOOLEAN : /\ invocation' = (IF ok THEN "created" ELSE "failed")
                           /\ pc' = AfterInvocation(ok)
    /\ triggerLog' = Append(triggerLog, [op |-> "create_workflow_invocation", ref |-> compilation])
    /\ UNCHANGED <<envVars, err, searchVars, tokenLog, lookupVars, assigned, albumLocals,
                   fetchLocals, prov, provFailed, ti, attempts, warehouse, compilation>>

(***************************************************************************)
(* Initial states and specifications                                       *)
(***************************************************************************)
LookupEndpoints == {"albums", "features", "tracks", "artists"}
OldRows == <<[id |-> <<0>>]>>

\* everything but the script, the caller, the inputs and the program counter
InitLocals ==
    /\ err = "none"
    /\ ai = 1 /\ offset = 0 /\ ids = <<>> /\ searchLog = <<>> /\ queried = {} /\ broken = {}
    /\ lastPage = "none"
    /\ tokenLog = <<>>
    /\ lst = <<>> /\ i = 0 /\ acc = <<>>
    /\ sent = [ep \in LookupEndpoints |-> <<>>]
    /\ albums_flat = <<>> /\ albums_dedup = <<>> /\ albums_clean = <<>> /\ albums_str = <<>>
    /\ albums_columns = <<>>
    /\ features_data = <<>> /\ track_data = <<>> /\ artist_data = <<>> /\ artist_str = <<>>
    /\ prov = 0 /\ provFailed = FALSE /\ ti = 1 /\ attempts = <<>>
    /\ warehouse = [t \in Range(table_names) |-> OldRows]
    /\ compilation = "unset" /\ invocation = "unset" /\ triggerLog = <<>>
    /\ run = 1
    /\ firstRun = [ids |-> <<>>, attempts |-> <<>>,
                   warehouse |-> [t \in Range(table_names) |-> OldRows]]
\* the scripts call the methods of the classes
InitRest == InitLocals /\ pair = NoPair

\* a run of one of the two scripts
Init ==
    /\ script \in {"initial", "incremental"}
    /\ caller = "main"
    /\ pc = "get_token"
    /\ \E n \in 0..MaxArtists : artist_names = [k \in 1..n |-> k]
    /\ world \in [size : CatalogSizes, unknown : {0, 2}, nulls : {0, 1, 2}, defect : Defects]
    /\ assigned = {}
    /\ album_ids = <<>> /\ albums_raw = <<>> /\ track_ids = <<>> /\ artist_ids = <<>>
    /\ InitRest

Next ==
    \/ GetToken \/ Managers
    \/ GetAlbumIdsCall \/ GetAlbumIdsRequest \/ GetAlbumIdsReturn
    \/ GetAlbumDataCall \/ GetAlbumDataRequest \/ GetAlbumDataReturn
    \/ AlbumsDf \/ DropDuplicates \/ Cleanup
    \/ TrackIds
    \/ FeaturesDfCall \/ FeaturesDfRequest \/ FeaturesDfReturn
    \/ TracksDfCall \/ TracksDfRequest \/ TracksDfReturn
    \/ ArtistIds
    \/ ArtistsDfCall \/ ArtistsDfRequest \/ ArtistsDfReturn
    \/ Astype \/ Provision \/ AuthDefault
    \/ ToGbq
    \/ CreateCompilationResult \/ CreateWorkflowInvocation

Spec == Init /\ [][Next]_vars

(***************************************************************************)
(* The script run a second time against the warehouse the first run left  *)
(***************************************************************************)
\* the finished script is started again: a new process, the same configuration,
\* the same upstream catalogue, the warehouse as the first run left it
Rerun ==
    /\ pc = "finished"
    /\ run = 1
    /\ run' = 2
    /\ firstRun' = [ids |-> album_ids, attempts |-> attempts, warehouse |-> warehouse]
    /\ pc' = "get_token"
    /\ err' = "none"
    /\ ai' = 1 /\ offset' = 0 /\ ids' = <<>> /\ searchLog' = <<>> /\ queried' = {} /\ broken' = {}
    /\ lastPage' = "none"
    /\ tokenLog' = <<>>
    /\ lst' = <<>> /\ i' = 0 /\ acc' = <<>>
    /\ sent' = [ep \in LookupEndpoints |-> <<>>]
    /\ assigned' = {}
    /\ album_ids' = <<>> /\ albums_raw' = <<>> /\ albums_flat' = <<>> /\ albums_dedup' = <<>>
    /\ albums_clean' = <<>> /\ albums_str' = <<>> /\ albums_columns' = <<>>
    /\ track_ids' = <<>> /\ features_data' = <<>> /\ track_data' = <<>>
    /\ artist_ids' = <<>> /\ artist_data' = <<>> /\ artist_str' = <<>>
    /\ prov' = 0 /\ provFailed' = FALSE /\ ti' = 1 /\ attempts' = <<>>
    /\ compilation' = "unset" /\ invocation' = "unset" /\ triggerLog' = <<>>
    /\ UNCHANGED <<script, caller, artist_names, world, warehouse, pair>>

\* two runs for one artist with one album
InitTwice ==
    /\ script \in {"initial", "incremental"}
    /\ caller = "main"
    /\ pc = "get_token"
    /\ artist_names = <<1>>
    /\ world \in [size : {1}, unknown : {0}, nulls : {0, 2}, defect : {"none"}]
    /\ assigned = {}
    /\ album_ids = <<>> /\ albums_raw = <<>> /\ track_ids = <<>> /\ artist_ids = <<>>
    /\ InitRest

NextTwice == Next \/ Rerun

SpecTwice == InitTwice /\ [][NextTwice]_vars

(***************************************************************************)
(* Direct calls: one operator called on its own with an input drawn from   *)
(* a bounded set                                                           *)
(***************************************************************************)
\* an identifier list of length L, without or with repeated identifiers
IdList(L, dup) == [k \in 1..L |-> Str(IF dup THEN ((k - 1) % 3) + 1 ELSE k)]

\* the raw album at position p of the list, with n artist credits and m tracks; only
\* the fields albums_df and drop_duplicates read that the claims are about.  The
\* albums at neighbouring positions share artist and track ids.
DirectAlbum(p, n, m) ==
    [jtype |-> "dict", id |-> Str(p),
     artists |-> [c \in 1..n |-> [jtype |-> "dict", id |-> Str((p % 2) + c)]],
     tracks |-> [jtype |-> "dict",
                 items |-> [t \in 1..m |->
                     [jtype |-> "dict", id |-> Str((p % 2) + t), name |-> "track",
                      artists |-> <<[jtype |-> "dict", name |-> "n" \o ToString(p)]>>]]]]
Shapes == (0..MaxShape) \X (0..MaxShape)

\* the fields a raw album lacks: "fields": every scalar field of the album, of its
\* artist credits and of its tracks, and the artist list of its tracks; "lists":
\* the artists list (album at an odd position) or the tracks object (even
\* position); "names": the name of the track-level artist credits
Gaps == {"none", "fields", "lists", "names"}
Bare == [jtype |-> "dict"]
Keep(m, keys) == [k \in (DOMAIN m) \cap keys |-> m[k]]
WithGaps(album, p, gaps) ==
    CASE gaps = "none" -> album
      [] gaps = "fields" ->
            [jtype |-> "dict",
             artists |-> [c \in 1..Len(album.artists) |-> Bare],
             tracks |-> [jtype |-> "dict",
                         items |-> [t \in 1..Len(album.tracks.items) |-> Bare]]]
      [] gaps = "lists" ->
            IF p % 2 = 1 THEN Keep(album, {"jtype", "id", "tracks"})
            ELSE Keep(album, {"jtype", "id", "artists"})
      [] gaps = "names" ->
            [album EXCEPT !.tracks.items =
                [t \in 1..Len(@) |-> [@[t] EXCEPT !.artists = [k \in 1..Len(@) |-> Bare]]]]

\* the album list of the given shapes as get_album_data returns it: in one response
\* envelope, or in one envelope per album
DirectData(shape, one, gaps) ==
    LET als == [p \in 1..Len(shape) |->
                   WithGaps(DirectAlbum(p, shape[p][1], shape[p][2]), p, gaps)]
    IN  IF one THEN <<[jtype |-> "dict", albums |-> als]>>
        ELSE [p \in 1..Len(als) |-> [jtype |-> "dict", albums |-> <<als[p]>>]]

InitDirect ==
    /\ script = "initial"
    /\ caller = "direct"
    /\ artist_names = <<>>
    /\ assigned = {}
    /\ \/ /\ pc = "get_album_data"
          /\ \E L \in 0..MaxLen, dup \in BOOLEAN : album_ids = IdList(L, dup)
          /\ world \in [size : {0}, unknown : {0, 2}, nulls : {0}, defect : {"none"}]
          /\ albums_raw = <<>> /\ track_ids = <<>> /\ artist_ids = <<>>
       \/ /\ pc \in {"features_df", "tracks_df"}
          /\ \E L \in 0..MaxLen, dup \in BOOLEAN : track_ids = IdList(L, dup)
          /\ world \in [size : {0}, unknown : {0}, nulls : {0, 1, 2}, defect : {"none"}]
          /\ album_ids = <<>> /\ albums_raw = <<>> /\ artist_ids = <<>>
       \/ /\ pc = "artists_df"
          /\ \E L \in 0..MaxLen, dup \in BOOLEAN : artist_ids = IdList(L, dup)
          /\ world \in [size : {0}, unknown : {0}, nulls : {0, 1, 2}, defect : {"none"}]
          /\ album_ids = <<>> /\ albums_raw = <<>> /\ track_ids = <<>>
       \/ /\ pc = "albums_df"
          /\ \E n \in 0..MaxAlbums : \E shape \in [1..n -> Shapes] : \E one \in BOOLEAN :
                albums_raw = DirectData(shape, one, "none")
          /\ world \in [size : {0}, unknown : {0}, nulls : {0}, defect : {"none"}]
          /\ album_ids = <<>> /\ track_ids = <<>> /\ artist_ids = <<>>
    /\ InitRest

NextDirect ==
    \/ GetAlbumDataCall \/ GetAlbumDataRequest \/ GetAlbumDataReturn
    \/ FeaturesDfCall \/ FeaturesDfRequest \/ FeaturesDfReturn
    \/ TracksDfCall \/ TracksDfRequest \/ TracksDfReturn
    \/ ArtistsDfCall \/ ArtistsDfRequest \/ ArtistsDfReturn
    \/ AlbumsDf \/ DropDuplicates

SpecDirect == InitDirect /\ [][NextDirect]_vars

\* albums_df, drop_duplicates and cleanup called on a list of envelopes, and
\* cleanup called once more on its result
InitCleanup ==
    /\ script = "initial"
    /\ caller = "flatten"
    /\ pc = "albums_df"
    /\ artist_names = <<>>
    /\ assigned = {}
    /\ \E n \in 0..MaxAlbums : \E shape \in [1..n -> Shapes] : \E one \in BOOLEAN :
          albums_raw = DirectData(shape, one, "none")
    /\ world \in [size : {0}, unknown : {0}, nulls : {0}, defect : {"none"}]
    /\ album_ids = <<>> /\ track_ids = <<>> /\ artist_ids = <<>>
    /\ InitRest

NextCleanup == AlbumsDf \/ DropDuplicates \/ Cleanup \/ CleanupAgain

SpecCleanup == InitCleanup /\ [][NextCleanup]_vars

\* albums_df, tracks_df and artists_df called on records that lack fields
InitGaps ==
    /\ script = "initial"
    /\ caller = "direct"
    /\ artist_names = <<>>
    /\ assigned = {}
    /\ \/ /\ pc = "tracks_df"
          /\ \E L \in 0..MaxIds : track_ids = IdList(L, FALSE)
          /\ world \in [size : {0}, unknown : {0}, nulls : {0}, defect : {"none", "sparse"}]
          /\ album_ids = <<>> /\ albums_raw = <<>> /\ artist_ids = <<>>
       \/ /\ pc = "artists_df"
          /\ \E L \in 0..MaxIds : artist_ids = IdList(L, FALSE)
          /\ world \in [size : {0}, unknown : {0}, nulls : {0}, defect : {"none", "sparse"}]
          /\ album_ids = <<>> /\ albums_raw = <<>> /\ track_ids = <<>>
       \/ /\ pc = "albums_df"
          /\ \E n \in 0..MaxAlbums : \E shape \in [1..n -> Shapes] : \E one \in BOOLEAN :
                \E gaps \in Gaps : albums_raw = DirectData(shape, one, gaps)
          /\ world \in [size : {0}, unknown : {0}, nulls : {0}, defect : {"none"}]
          /\ album_ids = <<>> /\ track_ids = <<>> /\ artist_ids = <<>>
    /\ InitRest

NextGaps ==
    \/ TracksDfCall \/ TracksDfRequest \/ TracksDfReturn
    \/ ArtistsDfCall \/ ArtistsDfRequest \/ ArtistsDfReturn
    \/ AlbumsDf \/ DropDuplicates

SpecGaps == InitGaps /\ [][NextGaps]_vars

(***************************************************************************)
(* One operator called through the class, then the function of the same    *)
(* name of operators.py called with the same argument and the same token,  *)
(* upstream answering the function as it answered the method               *)
(***************************************************************************)
PairOps == {"get_album_ids", "get_album_data", "albums_df", "features_df", "tracks_df",
            "artists_df"}
\* lengths of the identifier lists: none, one, more than one album window, the longest
PairLens == {0, 1, AlbumWindow + 1, MaxLen}

InitPair ==
    /\ script = "initial"
    /\ caller = "direct"
    /\ assigned = {}
    /\ InitLocals
    /\ \E op \in PairOps, tok \in {"tok", ""}, arg \in {"list", "tuple"} :
          /\ pair = [NoPair EXCEPT !.on = TRUE, !.op = op, !.token = tok, !.arg = arg]
          /\ pc = op
          /\ CASE op = "get_album_ids" ->
                   /\ \E n \in 0..MaxPairArtists : artist_names = [k \in 1..n |-> k]
                   /\ world \in [size : CatalogSizes, unknown : {0}, nulls : {0},
                                  defect : {"none"}]
                   /\ album_ids = <<>> /\ albums_raw = <<>> /\ track_ids = <<>>
                   /\ artist_ids = <<>>
               [] op = "get_album_data" ->
                   /\ artist_names = <<>>
                   /\ \E L \in PairLens : album_ids = IdList(L, FALSE)
                   /\ world \in [size : {0}, unknown : {0, 2}, nulls : {0}, defect : {"none"}]
                   /\ albums_raw = <<>> /\ track_ids = <<>> /\ artist_ids = <<>>
               [] op = "albums_df" ->
                   /\ artist_names = <<>>
                   /\ \E n \in 0..MaxAlbums : \E shape \in [1..n -> Shapes] :
                      \E one \in BOOLEAN, gaps \in {"none", "names"} :
                         albums_raw = DirectData(shape, one, gaps)
                   /\ world \in [size : {0}, unknown : {0}, nulls : {0}, defect : {"none"}]
                   /\ album_ids = <<>> /\ track_ids = <<>> /\ artist_ids = <<>>
               [] op \in {"features_df", "tracks_df"} ->
                   /\ artist_names = <<>>
                   /\ \E L \in PairLens : track_ids = IdList(L, FALSE)
                   /\ world \in [size : {0}, unknown : {0}, nulls : {0, 2}, defect : {"none"}]
                   /\ album_ids = <<>> /\ albums_raw = <<>> /\ artist_ids = <<>>
               [] op = "artists_df" ->
                   /\ artist_names = <<>>
                   /\ \E L \in PairLens : artist_ids = IdList(L, FALSE)
                   /\ world \in [size : {0}, unknown : {0}, nulls : {0, 2}, defect : {"none"}]
                   /\ album_ids = <<>> /\ albums_raw = <<>> /\ track_ids = <<>>

\* the call is over: it returned or raised (albums_df called on its own ends
\* where the deduplication would start)
CallEnded == pc \in {"returned", "raised"} \/ (pair.op = "albums_df" /\ pc = "drop_duplicates")
\* what the caller gets back
CallResult ==
    IF pc = "raised" THEN <<>>
    ELSE CASE pair.op = "get_album_ids" -> album_ids
           [] pair.op = "get_album_data" -> albums_raw
           [] pair.op = "albums_df" -> <<albums_flat, albums_columns>>
           [] pair.op = "features_df" -> features_data
           [] pair.op = "tracks_df" -> track_data
           [] pair.op = "artists_df" -> artist_data
\* what the call did: how it ended, the requests it issued, what it returned
Observed ==
    [ended |-> IF pc = "raised" THEN "raised" ELSE "returned", err |-> err,
     asked |-> pair.asked, result |-> CallResult]

\* the method has ended: the function is called with the same argument
Replay ==
    /\ pair.on
    /\ pair.impl = "class"
    /\ CallEnded
    /\ pair' = [pair EXCEPT !.impl = "function", !.asked = <<>>, !.first = Observed]
    /\ pc' = pair.op
    /\ err' = "none"
    /\ ai' = 1 /\ offset' = 0 /\ ids' = <<>> /\ searchLog' = <<>> /\ queried' = {} /\ broken' = {}
    /\ lastPage' = "none"
    /\ tokenLog' = <<>>
    /\ lst' = <<>> /\ i' = 0 /\ acc' = <<>>
    /\ sent' = [ep \in LookupEndpoints |-> <<>>]
    /\ assigned' = {}
    /\ album_ids' = IF pair.op = "get_album_ids" THEN <<>> ELSE album_ids
    /\ albums_raw' = IF pair.op = "get_album_data" THEN <<>> ELSE albums_raw
    /\ albums_flat' = <<>> /\ albums_columns' = <<>>
    /\ features_data' = <<>> /\ track_data' = <<>> /\ artist_data' = <<>>
    /\ UNCHANGED <<callVars, albums_dedup, albums_clean, albums_str, track_ids, artist_ids,
                   artist_str, loadVars>>

NextPair ==
    \/ GetAlbumIdsCall \/ GetAlbumIdsRequest \/ GetAlbumIdsReturn
    \/ GetAlbumDataCall \/ GetAlbumDataRequest \/ GetAlbumDataReturn
    \/ AlbumsDf
    \/ FeaturesDfCall \/ FeaturesDfRequest \/ FeaturesDfReturn
    \/ TracksDfCall \/ TracksDfRequest \/ TracksDfReturn
    \/ ArtistsDfCall \/ ArtistsDfRequest \/ ArtistsDfReturn
    \/ Replay

SpecPair == InitPair /\ [][NextPair]_vars

\* get_album_ids called on its own
InitSearch ==
    /\ script = "initial"
    /\ caller = "direct"
    /\ pc = "get_album_ids"
    /\ \E n \in 0..MaxArtists : artist_names = [k \in 1..n |-> k]
    /\ world \in [size : CatalogSizes, unknown : {0}, nulls : {0}, defect : {"none"}]
    /\ assigned = {}
    /\ album_ids = <<>> /\ albums_raw = <<>> /\ track_ids = <<>> /\ artist_ids = <<>>
    /\ InitRest

NextSearch == GetAlbumIdsCall \/ GetAlbumIdsRequest \/ GetAlbumIdsReturn

\* the call is sequential code: it takes its next step whenever it has one
FairSearch == InitSearch /\ [][NextSearch]_vars /\ WF_vars(NextSearch)

(***************************************************************************)
(* Properties                                                              *)
(***************************************************************************)
CeilDiv(L, N) == (L + N - 1) \div N
Requests(ep) == Len(sent[ep])
\* the loop of the lookup has run to its end: every response was a success
LookupExhausted(loop) == pc = loop /\ i >= Len(lst)
InputOf(ep) == CASE ep = "albums" -> album_ids
                 [] ep = "features" -> track_ids
                 [] ep = "tracks" -> track_ids
                 [] ep = "artists" -> artist_ids
LoopOf(ep) == CASE ep = "albums" -> "get_album_data_loop"
                [] ep = "features" -> "features_df_loop"
                [] ep = "tracks" -> "tracks_df_loop"
                [] ep = "artists" -> "artists_df_loop"
ResultName(ep) == CASE ep = "albums" -> "albums_raw"
                    [] ep = "features" -> "features_data"
                    [] ep = "tracks" -> "track_data"
                    [] ep = "artists" -> "artist_data"
ResultValue(ep) == CASE ep = "albums" -> albums_raw
                     [] ep = "features" -> features_data
                     [] ep = "tracks" -> track_data
                     [] ep = "artists" -> artist_data
WindowSize(ep) == CASE ep = "albums" -> AlbumWindow
                    [] ep = "features" -> FeatureWindow
                    [] ep = "tracks" -> TrackWindow
                    [] ep = "artists" -> ArtistWindow

\* C1: when every response is a success, the album lookup (window 20), the
\* audio-feature lookup (window 100) and the artist lookup (window 25) have issued
\* exactly ceil(L/N) requests for an identifier list of length L, and none when L = 0.
C1_RequestCount ==
    /\ (LookupExhausted("get_album_data_loop") \/ "albums_raw" \in assigned) =>
          /\ Requests("albums") = CeilDiv(Len(album_ids), 20)
          /\ (album_ids = <<>> => Requests("albums") = 0)
    /\ (LookupExhausted("features_df_loop") \/ "features_data" \in assigned) =>
          /\ Requests("features") = CeilDiv(Len(track_ids), 100)
          /\ (track_ids = <<>> => Requests("features") = 0)
    /\ (LookupExhausted("artists_df_loop") \/ "artist_data" \in assigned) =>
          /\ Requests("artists") = CeilDiv(Len(artist_ids), 25)
          /\ (artist_ids = <<>> => Requests("artists") = 0)

\* a list of 201 track ids has been looked up with three requests
C1_Witness ==
    /\ LookupExhausted("features_df_loop")
    /\ Len(track_ids) = 201
    /\ Requests("features") = 3

\* C2: in every batch lookup a non-success status for window k ends the operation
\* with an error: that request is the last one issued, and the caller's variable
\* receives nothing, not even the results of the windows before k.
C2_FailureAborts ==
    \A ep \in LookupEndpoints :
        \A k \in 1..Len(sent[ep]) :
            sent[ep][k].status # 200 =>
                /\ k = Len(sent[ep])
                /\ pc = "raised"
                /\ err = "ValueError"
                /\ ResultName(ep) \notin assigned
                /\ ResultValue(ep) = <<>>

\* the third window of a track lookup failed after two windows had been accumulated
C2_Witness ==
    /\ Len(sent["tracks"]) = 3
    /\ sent["tracks"][3].status # 200
    /\ acc # <<>>
    /\ pc = "raised"

\* the identifiers of window w that a feature, track or artist response answers
\* with an object (not with null)
KnownIds(w) ==
    LET pos == SelectSeq([k \in 1..Len(w) |-> k], LAMBDA k : ~NullAt(k))
    IN  [k \in 1..Len(pos) |-> w[pos[k]]]

\* C3: the windows a batch lookup issues are the contiguous, disjoint slices of its
\* identifier list, each of exactly N identifiers except the last, which has 1..N;
\* their concatenation in issue order is the input list, and the accumulated
\* results follow the same order.
C3_Windows ==
    \A ep \in LookupEndpoints :
        LET ws == [k \in 1..Len(sent[ep]) |-> sent[ep][k].ids]
            L == InputOf(ep)
            N == WindowSize(ep)
            ok == SelectSeq(sent[ep], LAMBDA r : r.status = 200)
        IN  /\ \A k \in 1..Len(ws) :
                  /\ ws[k] = SubSeq(L, (k - 1) * N + 1, Min(k * N, Len(L)))
                  /\ Len(ws[k]) >= 1 /\ Len(ws[k]) <= N
                  /\ k < Len(ws) => Len(ws[k]) = N
            /\ LookupExhausted(LoopOf(ep)) => ConcatAll(ws) = L
            /\ (pc = LoopOf(ep) /\ ep = "albums") =>
                  /\ Len(acc) = Len(ok)
                  /\ \A k \in 1..Len(acc) :
                        /\ Len(acc[k].albums) = Len(ok[k].ids)
                        /\ \A j \in 1..Len(acc[k].albums) :
                              IsDict(acc[k].albums[j]) => acc[k].albums[j].id = ok[k].ids[j]
            /\ (pc = LoopOf(ep) /\ ep # "albums") =>
                  [k \in 1..Len(acc) |-> acc[k].id]
                      = ConcatAll([k \in 1..Len(ok) |-> KnownIds(ok[k].ids)])

\* 205 artist ids with repetitions have been looked up in nine windows, the last of five
C3_Witness ==
    /\ LookupExhausted("artists_df_loop")
    /\ Len(artist_ids) = 205
    /\ artist_ids[4] = artist_ids[1]
    /\ Len(sent["artists"]) = 9
    /\ Len(sent["artists"][9].ids) = 5

InSearch == pc = "get_album_ids_loop"
IsPrefix(p, q) == Len(p) <= Len(q) /\ SubSeq(q, 1, Len(p)) = p
NothingLoaded ==
    /\ attempts = <<>>
    /\ warehouse = [t \in Range(table_names) |-> OldRows]
    /\ compilation = "unset"
    /\ invocation = "unset"

\* the requests logged for the artist queried last have offsets 0, 50, 100, ... below
\* 1000, and there are 20 of them once the artist is finished without a failure
C4_Offsets ==
    /\ \A k \in 1..Len(searchLog) :
          /\ searchLog[k].offset = 50 * (k - 1)
          /\ searchLog[k].offset < 1000
          /\ searchLog[k].artist = searchLog[1].artist
    /\ (/\ InSearch
        /\ searchLog # <<>>
        /\ searchLog[Len(searchLog)].artist < ai
        /\ \A k \in 1..Len(searchLog) : searchLog[k].status = 200)
       => Len(searchLog) = 20

\* C4: in get_album_ids an artist whose every search response is a success gets
\* exactly 20 requests, with offsets 0, 50, ..., 950 in that order, whatever the
\* pages hold; no request has an offset of 1000 or more, and the loop terminates.
C4_Pagination == []C4_Offsets /\ (InSearch ~> ~InSearch)

\* an artist with a full page, a partial page and 18 empty pages has been paged through
C4_Witness ==
    /\ InSearch
    /\ world.size = BigCatalog
    /\ Len(searchLog) = 20
    /\ \A k \in 1..20 : searchLog[k].status = 200
    /\ searchLog[1].artist < ai
    /\ Len(ids) >= BigCatalog

\* a failed page is the last request of its artist, the loop goes on with the next
\* artist at offset 0, and all artists have been queried when the loop ends
C5_Tolerant ==
    /\ \A k \in 1..Len(searchLog) :
          searchLog[k].status # 200 =>
              /\ k = Len(searchLog)
              /\ InSearch
              /\ err = "none"
              /\ ai = searchLog[k].artist + 1
              /\ offset = 0
    /\ searchLog # <<>> => searchLog[1].offset = 0
    /\ broken \subseteq queried
    /\ InSearch => /\ err = "none"
                   /\ queried = (1..(ai - 1)) \cup (IF offset > 0 THEN {ai} ELSE {})
    /\ (InSearch /\ ai > Len(artist_names)) => queried = 1..Len(artist_names)

\* C5: in get_album_ids a non-success response for a page of artist A ends the
\* requests for A only: the identifiers collected so far stay, every later artist
\* is still queried from offset 0, and the call returns its list normally.
C5_SearchFailure ==
    /\ []C5_Tolerant
    /\ [][InSearch => /\ IsPrefix(ids, ids')
                      /\ (broken' # broken => ids' = ids)
                      /\ (~InSearch' => /\ pc' = "get_album_data"
                                        /\ err' = "none"
                                        /\ album_ids' = ids)]_vars

\* the first of two artists failed after its first page, the second was paged through
C5_Witness ==
    /\ InSearch
    /\ Len(artist_names) = 2
    /\ ai > Len(artist_names)
    /\ broken = {1}
    /\ searchLog[1].artist = 2
    /\ Len(searchLog) = 20
    /\ world.size = BigCatalog
    /\ Len(ids) > BigCatalog

\* C6: the loader loop attempts the write of albums, features, tracks, artist once
\* each and in that order; a failed write neither stops the later writes nor the run.
C6_Loader ==
    /\ [k \in 1..Len(attempts) |-> attempts[k].table]
          = SubSeq(<<"albums", "features", "tracks", "artist">>, 1, Len(attempts))
    /\ Len(attempts) <= 4
    /\ pc = "to_gbq" => Len(attempts) = ti - 1 /\ Len(attempts) < 4
    /\ pc \in {"create_compilation_result", "create_workflow_invocation", "finished"}
          => Len(attempts) = 4
    /\ attempts # <<>> => pc # "raised" /\ err = "none"

\* a run finished in which the first and the third write failed and the others succeeded
C6_Witness ==
    /\ pc = "finished"
    /\ ~attempts[1].ok /\ attempts[2].ok /\ ~attempts[3].ok /\ attempts[4].ok
    /\ warehouse["albums"] = OldRows
    /\ warehouse["artist"] = dfs[4]

\* C7: a run in which a batch lookup got a non-success status ends without a table
\* write, a compilation result or a workflow invocation.
C7_FetchFailureFatal ==
    (\E ep \in LookupEndpoints : \E k \in 1..Len(sent[ep]) : sent[ep][k].status # 200)
        => pc = "raised" /\ NothingLoaded

\* the artist lookup, the last of the lookups, failed after the others had succeeded
C7_Witness ==
    /\ sent["artists"] # <<>>
    /\ sent["artists"][Len(sent["artists"])].status # 200
    /\ {"albums_raw", "features_data", "track_data"} \subseteq assigned
    /\ pc = "raised"

\* C8: a non-200 answer to a token request raises at once, without a retry, and the
\* run ends: no request that would have used the token, no table write, no trigger.
C8_TokenFailure ==
    \A k \in 1..Len(tokenLog) :
        /\ \A j \in 1..(k - 1) : tokenLog[j].by # tokenLog[k].by
        /\ tokenLog[k].status # 200 =>
              /\ k = Len(tokenLog)
              /\ pc = "raised"
              /\ err = "ValueError"
              /\ NothingLoaded
              /\ \A ep \in LookupEndpoints : sent[ep] = <<>>
              /\ tokenLog[k].by \in {"main", "get_album_ids"} => searchLog = <<>> /\ queried = {}

\* the token request of get_album_data failed after the search had been done
C8_Witness ==
    /\ Len(tokenLog) = 3
    /\ tokenLog[3].by = "get_album_data"
    /\ tokenLog[3].status # 200
    /\ queried # {}
    /\ pc = "raised"

FirstIndex(rows, t) ==
    CHOOSE k \in 1..Len(rows) :
        rows[k].track_id = t /\ \A j \in 1..(k - 1) : rows[j].track_id # t

\* C9: after drop_duplicates the table has exactly one row per distinct track id of
\* the flattened table, and it is the first row with that id in flattening order.
C9_FirstSeenWins ==
    "albums_dedup" \in assigned =>
        LET tids == {albums_flat[k].track_id : k \in 1..Len(albums_flat)}
        IN  /\ Len(albums_dedup) = Cardinality(tids)
            /\ \A t \in tids :
                  \E k \in 1..Len(albums_dedup) :
                      /\ albums_dedup[k] = albums_flat[FirstIndex(albums_flat, t)]
                      /\ \A j \in 1..Len(albums_dedup) :
                            albums_dedup[j].track_id = t => j = k

\* two rows with the same track id and different album ids: the first one was kept
C9_Witness ==
    /\ "albums_dedup" \in assigned
    /\ \E j, k \in 1..Len(albums_flat) :
          /\ j < k
          /\ albums_flat[j].track_id = albums_flat[k].track_id
          /\ albums_flat[j].album_id # albums_flat[k].album_id
          /\ albums_flat[j] \in Range(albums_dedup)
          /\ albums_flat[k] \notin Range(albums_dedup)

AllAlbums(data) == ConcatAll([e \in 1..Len(data) |-> Get(data[e], "albums", <<>>)])
Credits(album) == Get(album, "artists", <<>>)
Tracks(album) == Get(Get(album, "tracks", [jtype |-> "dict"]), "items", <<>>)
RECURSIVE RowsBefore(_, _)
RowsBefore(als, a) ==
    IF a <= 1 THEN 0
    ELSE RowsBefore(als, a - 1) + Len(Credits(als[a - 1])) * Len(Tracks(als[a - 1]))

\* C10: albums_df emits one row per (album, artist credit, track): N * M rows for an
\* album with N credits and M tracks, credits in the outer order and tracks in the
\* inner order, the albums of all envelopes one after the other.
C10_CrossProduct ==
    "albums_flat" \in assigned =>
        LET als == AllAlbums(albums_raw)
        IN  /\ Len(albums_flat) = RowsBefore(als, Len(als) + 1)
            /\ \A a \in 1..Len(als) :
                  \A c \in 1..Len(Credits(als[a])) :
                      \A t \in 1..Len(Tracks(als[a])) :
                          LET row == albums_flat[RowsBefore(als, a)
                                                 + (c - 1) * Len(Tracks(als[a])) + t]
                          IN  /\ row.album_id = Get(als[a], "id", <<>>)
                              /\ row.artist_id = Get(Credits(als[a])[c], "id", <<>>)
                              /\ row.track_id = Get(Tracks(als[a])[t], "id", <<>>)

\* two envelopes, one of them with an album of two credits and two tracks
C10_Witness ==
    /\ "albums_flat" \in assigned
    /\ Len(albums_raw) = 2
    /\ \E a \in 1..Len(AllAlbums(albums_raw)) :
          /\ Len(Credits(AllAlbums(albums_raw)[a])) = 2
          /\ Len(Tracks(AllAlbums(albums_raw)[a])) = 2
    /\ Len(albums_flat) > 4

\* the (album, track) positions of the nested tracks, over all albums or over the
\* albums with at least one artist credit
NestedTracks(als, credited) ==
    {<<a, t>> \in (1..Len(als)) \X (0..MaxShape + 1) :
        /\ t \in 1..Len(Tracks(als[a]))
        /\ (credited => Credits(als[a]) # <<>>)}
TrackIdAt(als, at) == Get(Tracks(als[at[1]])[at[2]], "id", <<>>)
\* the first of the positions that holds track id tid, in flattening order
FirstAt(als, nested, tid) ==
    CHOOSE at \in nested :
        /\ TrackIdAt(als, at) = tid
        /\ \A bt \in nested :
              TrackIdAt(als, bt) = tid =>
                  \/ at[1] < bt[1]
                  \/ (at[1] = bt[1] /\ at[2] <= bt[2])
NamesOf(item) == [k \in 1..Len(Get(item, "artists", <<>>)) |-> Get(item, "artists", <<>>)[k]["name"]]

\* one row per track id of the given nested tracks, each with the artist-name list of
\* the track item it was built from
OneRowPerTrack(als, nested) ==
    LET tids == {TrackIdAt(als, at) : at \in nested}
    IN  /\ Len(albums_dedup) = Cardinality(tids)
        /\ {albums_dedup[k].track_id : k \in 1..Len(albums_dedup)} = tids
        /\ \A k \in 1..Len(albums_dedup) :
              albums_dedup[k].track_id \in tids =>
                  LET at == FirstAt(als, nested, albums_dedup[k].track_id)
                  IN  /\ albums_dedup[k].album_id = Get(als[at[1]], "id", <<>>)
                      /\ albums_dedup[k].artists = NamesOf(Tracks(als[at[1]])[at[2]])

\* C11 as stated: flattening followed by deduplication yields exactly one row per
\* distinct track id that occurs among the nested tracks of the albums, each row with
\* the artist-name list of its own track.
C11_Original ==
    "albums_dedup" \in assigned =>
        OneRowPerTrack(AllAlbums(albums_raw), NestedTracks(AllAlbums(albums_raw), FALSE))

\* C11 (amended): flattening followed by deduplication yields exactly one row per
\* distinct track id that occurs among the nested tracks of the albums that have at
\* least one artist credit, and the artist-name list of each row is the list of the
\* credits of the track it was built from, whichever album-level credit generated it.
C11_OneRowPerCreditedTrack ==
    "albums_dedup" \in assigned =>
        OneRowPerTrack(AllAlbums(albums_raw), NestedTracks(AllAlbums(albums_raw), TRUE))

\* an album with 2 tracks and 1 credit and an album with 1 track and 2 credits gave 3 rows
C11_Witness ==
    /\ "albums_dedup" \in assigned
    /\ Len(AllAlbums(albums_raw)) = 2
    /\ Len(Credits(AllAlbums(albums_raw)[1])) = 1 /\ Len(Tracks(AllAlbums(albums_raw)[1])) = 2
    /\ Len(Credits(AllAlbums(albums_raw)[2])) = 2 /\ Len(Tracks(AllAlbums(albums_raw)[2])) = 1
    /\ Len(albums_flat) = 4
    /\ Len(albums_dedup) = 3

\* C12: create_workflow_invocation is called exactly once, after the one call of
\* create_compilation_result, in every run that reaches the trigger; when the
\* compilation call failed it is called with the null reference, not skipped.
C12_InvocationAlwaysCalled ==
    /\ Len(triggerLog) <= 2
    /\ \A k \in 1..Len(triggerLog) :
          triggerLog[k].op = IF k = 1 THEN "create_compilation_result"
                                     ELSE "create_workflow_invocation"
    /\ pc = "create_compilation_result" => triggerLog = <<>>
    /\ pc = "create_workflow_invocation" => Len(triggerLog) = 1
    /\ triggerLog # <<>> =>
          /\ pc \in {"create_workflow_invocation", "finished"}
          /\ compilation \in {"name", "none"}
    /\ pc = "finished" =>
          /\ Len(triggerLog) = 2
          /\ triggerLog[2].ref = compilation
          /\ invocation \in {"created", "failed"}

\* a run finished whose compilation call failed: the invocation was requested with
\* the null reference
C12_Witness ==
    /\ pc = "finished"
    /\ compilation = "none"
    /\ Len(triggerLog) = 2
    /\ triggerLog[2] = [op |-> "create_workflow_invocation", ref |-> "none"]

\* C13: a successful write leaves in the destination table exactly the rows of the
\* produced table and none of its earlier rows (a failed write leaves the table as it
\* was); hence a second run that gets the same album ids from the same catalogue and
\* the same write outcomes leaves the four tables as the first run left them.
C13_ReplaceSemantics ==
    /\ \A k \in 1..Len(attempts) :
          warehouse[attempts[k].table] =
              IF attempts[k].ok THEN dfs[k] ELSE firstRun.warehouse[attempts[k].table]
    /\ (/\ run = 2
        /\ Len(attempts) = Len(table_names)
        /\ album_ids = firstRun.ids
        /\ attempts = firstRun.attempts)
       => warehouse = firstRun.warehouse

\* a second run has written over the tables that the first run had written
C13_Witness ==
    /\ run = 2
    /\ pc = "finished"
    /\ album_ids = firstRun.ids
    /\ attempts = firstRun.attempts
    /\ \A k \in 1..Len(table_names) : attempts[k].ok
    /\ warehouse["albums"] # OldRows
    /\ warehouse = firstRun.warehouse

\* every token request so far was answered with 200
TokensGranted == \A k \in 1..Len(tokenLog) : tokenLog[k].status = 200

\* C14: for an empty identifier list every batch lookup (get_album_data, features_df,
\* tracks_df, artists_df) issues no request, raises no error and returns an empty result.
C14_EmptyInput ==
    (/\ caller = "direct"
     /\ TokensGranted
     /\ album_ids = <<>> /\ track_ids = <<>> /\ artist_ids = <<>>)
    => /\ \A ep \in LookupEndpoints : sent[ep] = <<>>
       /\ pc # "raised"
       /\ err = "none"
       /\ \A ep \in LookupEndpoints : ResultName(ep) \in assigned => ResultValue(ep) = <<>>

\* C15: in get_album_ids a success response with an empty items list or without an
\* items key leaves the accumulated ids unchanged and advances the offset by 50: the
\* artist's next request, if the offset is still below 1000, is issued at that offset.
C15_EmptyPageAdvances ==
    /\ [][(InSearch /\ InSearch' /\ lastPage' \in {"empty", "no_items"}) =>
              /\ ids' = ids
              /\ IF offset + 50 < 1000
                 THEN ai' = ai /\ offset' = offset + 50
                 ELSE ai' = ai + 1]_vars
    /\ [][(InSearch /\ InSearch') =>
              /\ searchLog'[Len(searchLog')].artist = ai
              /\ searchLog'[Len(searchLog')].offset = offset]_vars

\* a catalogue of one album: the third response had an empty items list, the one id
\* collected is still there and the artist's next request will be issued at offset 150
C15_Witness ==
    /\ InSearch
    /\ Len(searchLog) = 3
    /\ searchLog[3].offset = 100
    /\ lastPage = "empty"
    /\ offset = 150
    /\ Len(ids) = 1

\* the lookups that build their rows from the non-null entries of the responses
RowLookups == {"features", "tracks", "artists"}
\* the identifiers that the successful responses so far answered with an object
AnsweredIds(ep) ==
    LET ok == SelectSeq(sent[ep], LAMBDA r : r.status = 200)
    IN  ConcatAll([k \in 1..Len(ok) |-> KnownIds(ok[k].ids)])

\* C16: in tracks_df, features_df and artists_df a null entry of a response list gives
\* no output row and no error: the output rows are those of the non-null entries of
\* all windows, in their order.
C16_NullsSkipped ==
    \A ep \in RowLookups :
        (caller = "direct" /\ world.nulls > 0 /\ sent[ep] # <<>>) =>
            /\ pc = LoopOf(ep) => [k \in 1..Len(acc) |-> acc[k].id] = AnsweredIds(ep)
            /\ (pc = "raised") => (err = "ValueError" /\ sent[ep][Len(sent[ep])].status # 200)
            /\ (pc = "returned") =>
                  [k \in 1..Len(ResultValue(ep)) |-> ResultValue(ep)[k].id] = AnsweredIds(ep)

\* the requests of tracks_df so far carry the successive windows of n identifiers of
\* track_ids, the last possibly smaller
TrackWindowsOf(n) ==
    \A k \in 1..Len(sent["tracks"]) :
        sent["tracks"][k].ids = SubSeq(track_ids, (k - 1) * n + 1, Min(k * n, Len(track_ids)))

\* C17 as stated: tracks_df partitions its identifier list into windows of 100
\* identifiers, the last possibly smaller.
C17_Original == TrackWindowsOf(100)

\* C17 (amended): tracks_df, the lookup that extracts only the identifier, the
\* popularity and the explicit flag, partitions its identifier list into windows of 50
\* identifiers, the last possibly smaller.
C17_TrackWindowFifty ==
    /\ TrackWindowsOf(50)
    /\ \A k \in 1..Len(track_data) :
          DOMAIN track_data[k] = {"id", "track_popularity", "explicit"}

\* 101 track ids have been looked up in windows of 50, 50 and 1
C17_Witness ==
    /\ pc = "returned"
    /\ Len(track_ids) = 101
    /\ Len(sent["tracks"]) = 3
    /\ Len(sent["tracks"][1].ids) = 50
    /\ Len(sent["tracks"][3].ids) = 1
    /\ Len(track_data) = 101

\* C18: after the widening step of cleanup the table always has the 12 columns
\* artist_0..artist_11; a row whose artist list has 3 names has non-null artist_0,
\* artist_1, artist_2 and null artist_3..artist_11.
C18_TwelveArtistColumns ==
    "albums_clean" \in assigned =>
        \A k \in 1..Len(albums_clean) :
            /\ {"artist_" \o ToString(n) : n \in 0..11} \subseteq DOMAIN albums_clean[k]
            /\ Len(albums_clean[k].artists) = 3 =>
                  /\ \A n \in 0..2 : albums_clean[k]["artist_" \o ToString(n)] # NaN
                  /\ \A n \in 3..11 : albums_clean[k]["artist_" \o ToString(n)] = NaN

\* C19: widening is idempotent on the column set: the widening step of cleanup applied
\* to a table that already has the indexed columns leaves the number of columns
\* unchanged, so widening twice gives the same columns as widening once.
C19_WideningIdempotent ==
    [][(run = 2 /\ pc = "cleanup" /\ pc' = "returned")
          => Len(albums_columns') = Len(albums_columns)]_vars

\* the values of the two columns the code fills with a Python list:
\* track_info["artists"] and artist_data["artist_genres"]
ArtistNames == {"n" \o ToString(10 * t + k) : t \in 0..2, k \in 1..3}
GenreNames == {"genre"}
\* the row holds a list in one of them (the text of a list is not a list of names)
HoldsList(row) ==
    \/ "artists" \in DOMAIN row /\ row.artists \in Seq(ArtistNames)
    \/ "artist_genres" \in DOMAIN row /\ row.artist_genres \in Seq(GenreNames)

\* C20: in the initial load and in the incremental load, every row of every table
\* handed to the warehouse loader is single-level: the artist list of an album row
\* and the genre list of an artist row are strings, not lists, when the loader loop
\* runs.
C20_SingleLevelRows ==
    pc = "to_gbq" => \A t \in 1..Len(dfs) : \A r \in 1..Len(dfs[t]) : ~HoldsList(dfs[t][r])

\* an envelope, an album entry or an album-level artist credit of the list is not a mapping
NotAllMappings(data) ==
    \/ \E e \in 1..Len(data) : ~IsDict(data[e])
    \/ \E a \in 1..Len(AllAlbums(data)) :
          \/ ~IsDict(AllAlbums(data)[a])
          \/ \E c \in 1..Len(Credits(AllAlbums(data)[a])) : ~IsDict(Credits(AllAlbums(data)[a])[c])

\* C21: whenever a response envelope, an album entry (the null entry of an unknown
\* id included) or an album-level artist credit handed to albums_df is not a mapping,
\* albums_df raises TypeError and the run ends there: nothing is returned, not even
\* the rows built before the entry, no table write is attempted and the warehouse
\* and the workflow trigger are untouched.
C21_TypeErrorAborts ==
    ("albums_raw" \in assigned /\ NotAllMappings(albums_raw) /\ pc # "albums_df") =>
        /\ pc = "raised"
        /\ err = "TypeError"
        /\ "albums_flat" \notin assigned
        /\ albums_flat = <<>>
        /\ attempts = <<>>
        /\ warehouse = [t \in Range(table_names) |-> OldRows]
        /\ triggerLog = <<>>

\* the run has ended with TypeError at a non-mapping third envelope, after two
\* envelopes whose albums give rows
C21_Witness ==
    /\ pc = "raised"
    /\ err = "TypeError"
    /\ Len(albums_raw) = 3
    /\ ~IsDict(albums_raw[3])
    /\ albums_df(SubSeq(albums_raw, 1, 2)) # <<>>

\* the rows whose every field is the zero value of its column
ZeroAlbumRow ==
    [track_name |-> "", track_id |-> <<>>, track_number |-> 0, duration_ms |-> 0,
     artists |-> <<>>, album_type |-> "", total_tracks |-> 0, album_name |-> "",
     release_date |-> "", label |-> "", album_popularity |-> 0, album_id |-> <<>>,
     artist_id |-> <<>>]
ZeroTrackRow == [id |-> <<>>, track_popularity |-> 0, explicit |-> FALSE]
ZeroArtistRow ==
    [id |-> <<>>, name |-> "", artist_popularity |-> 0, artist_genres |-> <<>>, followers |-> 0]
\* no album, artist credit or track of the list has a scalar field
NoFields(data) ==
    \A a \in 1..Len(AllAlbums(data)) :
        LET album == AllAlbums(data)[a]
        IN  /\ DOMAIN album = {"jtype", "artists", "tracks"}
            /\ \A c \in 1..Len(Credits(album)) : Credits(album)[c] = Bare
            /\ \A t \in 1..Len(Tracks(album)) : Tracks(album)[t] = Bare

\* C22: when the raw records are mappings, a missing field never causes an error in
\* albums_df, tracks_df or artists_df (the only error is that of a failed request),
\* and every absent field gets the zero value of its column: "", 0, FALSE, the
\* empty list, and 0 followers when the followers object or its total is absent.
C22_MissingFieldsDefault ==
    /\ (pc = "raised" /\ err # "ValueError") => (albums_raw = <<>> /\ acc = <<>>)
    /\ ("albums_flat" \in assigned /\ NoFields(albums_raw)) =>
          \A r \in 1..Len(albums_flat) : albums_flat[r] = ZeroAlbumRow
    /\ ("track_data" \in assigned /\ Sparse) =>
          /\ Len(track_data) = Len(track_ids)
          /\ \A r \in 1..Len(track_data) : track_data[r] = ZeroTrackRow
    /\ ("artist_data" \in assigned /\ Sparse) =>
          /\ Len(artist_data) = Len(artist_ids)
          /\ \A r \in 1..Len(artist_data) : artist_data[r] = ZeroArtistRow

\* C23: a failure of the workflow trigger, in the compilation call, in the invocation
\* call or in both, leaves every warehouse table as the loader left it, and the run
\* goes on to its normal end without an error.
C23_TriggerFailureKeepsData ==
    [][/\ (pc = "create_compilation_result" /\ compilation' = "none") =>
             (warehouse' = warehouse /\ err' = "none" /\ pc' = "create_workflow_invocation")
       /\ (pc = "create_workflow_invocation" /\ invocation' = "failed") =>
             (warehouse' = warehouse /\ err' = "none" /\ pc' = "finished")]_vars

\* the run has finished after both calls of the trigger failed, with the four tables
\* the loader wrote in the warehouse
C23_Witness ==
    /\ pc = "finished"
    /\ err = "none"
    /\ compilation = "none"
    /\ invocation = "failed"
    /\ Len(attempts) = 4
    /\ \A k \in 1..4 : attempts[k].ok /\ warehouse[table_names[k]] = dfs[k]
    /\ warehouse["albums"] # <<>>

\* the stages of a run, and for each the history of its steps, whether it has made a
\* step and whether it has ended
Stages == 1..12
TokensBy(by) == SelectSeq(tokenLog, LAMBDA r : r.by = by)
Calls(op) == SelectSeq(triggerLog, LAMBDA r : r.op = op)
StageLog(k) ==
    CASE k = 1 -> <<TokensBy("main")>>
      [] k = 2 -> <<TokensBy("get_album_ids"), queried, ids>>
      [] k = 3 -> <<TokensBy("get_album_data"), sent["albums"]>>
      [] k = 4 -> <<albums_flat>>
      [] k = 5 -> <<albums_dedup>>
      [] k = 6 -> <<albums_clean>>
      [] k = 7 -> <<sent["features"]>>
      [] k = 8 -> <<sent["tracks"]>>
      [] k = 9 -> <<sent["artists"]>>
      [] k = 10 -> <<attempts, warehouse>>
      [] k = 11 -> <<Calls("create_compilation_result")>>
      [] k = 12 -> <<Calls("create_workflow_invocation")>>
Ended(k) ==
    CASE k = 1 -> "token" \in assigned
      [] k = 2 -> "album_ids" \in assigned
      [] k = 3 -> "albums_raw" \in assigned
      [] k = 4 -> "albums_flat" \in assigned
      [] k = 5 -> "albums_dedup" \in assigned
      [] k = 6 -> "albums_clean" \in assigned
      [] k = 7 -> "features_data" \in assigned
      [] k = 8 -> "track_data" \in assigned
      [] k = 9 -> "artist_data" \in assigned
      [] k = 10 -> Len(attempts) = Len(table_names)
      [] k = 11 -> Calls("create_compilation_result") # <<>>
      [] k = 12 -> Calls("create_workflow_invocation") # <<>>
Begun(k) ==
    \/ Ended(k)
    \/ CASE k = 1 -> tokenLog # <<>>
         [] k = 2 -> TokensBy("get_album_ids") # <<>>
         [] k = 3 -> TokensBy("get_album_data") # <<>>
         [] k = 7 -> sent["features"] # <<>>
         [] k = 8 -> sent["tracks"] # <<>>
         [] k = 9 -> sent["artists"] # <<>>
         [] k = 10 -> attempts # <<>>
         [] OTHER -> FALSE

\* C24: within one run the stages happen in strict order: token request, search,
\* album lookup, flattening, deduplication, cleanup, audio-feature lookup, track
\* lookup, artist lookup, the four table writes, compilation, workflow invocation.
\* A stage makes its first step only after the stage before it has ended, and a stage
\* that has ended makes no further step; so no table is written before the four
\* tables have been fetched and no invocation is created before four writes have
\* been attempted.
C24_StageOrder ==
    /\ [](\A k \in Stages \ {1} : Begun(k) => Ended(k - 1))
    /\ [][\A k \in Stages : Ended(k) => StageLog(k)' = StageLog(k)]_vars
    /\ [](attempts # <<>> =>
             {"albums_clean", "features_data", "track_data", "artist_data"} \subseteq assigned)
    /\ [](Calls("create_workflow_invocation") # <<>> => Len(attempts) = 4)

\* a run finished in which every stage issued requests: all twelve stages have ended
C24_Witness ==
    /\ pc = "finished"
    /\ \A k \in Stages : Ended(k)
    /\ \A ep \in LookupEndpoints : sent[ep] # <<>>
    /\ queried # {}

\* the length of the longest list in the column
Longest(rows, col) ==
    IF rows = <<>> THEN 0
    ELSE CHOOSE w \in 0..12 : /\ \A r \in 1..Len(rows) : Len(rows[r][col]) <= w
                              /\ \E r \in 1..Len(rows) : Len(rows[r][col]) = w
\* the table has, besides the base columns, exactly the columns prefix0..prefix(W-1),
\* each row holding its list in order and null beyond the end of its list
Widened(rows, col, prefix, base) ==
    LET W == Longest(rows, col)
    IN  \A r \in 1..Len(rows) :
           /\ (DOMAIN rows[r]) \ base = {prefix \o ToString(n) : n \in 0..(W - 1)}
           /\ \A n \in 0..(W - 1) :
                 rows[r][prefix \o ToString(n)] =
                    IF n < Len(rows[r][col]) THEN rows[r][col][n + 1] ELSE NaN

\* C25: the widening of artists in cleanup and of artist_genres in artists_df makes
\* exactly one column per index 0..W-1, W being the longest list of the table, named
\* prefix plus index; a row with k elements has them in order in columns 0..k-1 and
\* null in columns k..W-1.
C25_WideningColumns ==
    /\ "albums_clean" \in assigned =>
          /\ Widened(albums_clean, "artists", "artist_", DOMAIN ZeroAlbumRow \cup {"duration_sec"})
          /\ Len(albums_columns) = Len(AlbumColumns) + Longest(albums_clean, "artists") + 1
    /\ "artist_data" \in assigned =>
          Widened(artist_data, "artist_genres", "genre_", DOMAIN ZeroArtistRow)

\* the cleaned album table has a row with fewer names than its 3 artist columns, and
\* the artist table a row with fewer genres than its 2 genre columns
C25_Witness ==
    /\ "albums_clean" \in assigned
    /\ "artist_data" \in assigned
    /\ Longest(albums_clean, "artists") = 3
    /\ \E r \in 1..Len(albums_clean) :
          Len(albums_clean[r].artists) = 1 /\ albums_clean[r].artist_2 = NaN
    /\ Longest(artist_data, "artist_genres") = 2
    /\ \E r \in 1..Len(artist_data) :
          Len(artist_data[r].artist_genres) = 1 /\ artist_data[r].genre_1 = NaN

\* the artist_id of every row kept is the id of the first artist credit of the album
\* of the first of the given nested tracks that has the row's track id
FirstWriterWins(als, nested) ==
    \A k \in 1..Len(albums_dedup) :
        LET at == FirstAt(als, nested, albums_dedup[k].track_id)
        IN  /\ Credits(als[at[1]]) # <<>>
            /\ albums_dedup[k].artist_id = Get(Credits(als[at[1]])[1], "id", <<>>)

\* C26 as stated: after flattening and deduplication the artist_id of the row kept
\* for a track is the id of the first artist credit of the first album, in
\* lookup-result order, whose nested tracks contain that track id.
C26_Original ==
    "albums_dedup" \in assigned =>
        FirstWriterWins(AllAlbums(albums_raw), NestedTracks(AllAlbums(albums_raw), FALSE))

\* C26 (amended): after flattening and deduplication the artist_id of the row kept
\* for a track is the id of the first artist credit of the first album, in
\* lookup-result order, that has at least one artist credit and whose nested tracks
\* contain that track id; later credits and later albums never overwrite it.
C26_FirstCreditedAlbumWins ==
    "albums_dedup" \in assigned =>
        FirstWriterWins(AllAlbums(albums_raw), NestedTracks(AllAlbums(albums_raw), TRUE))

\* the first album has a track and no credit, the second album has the same track
\* and two credits: the row kept for the track has the first credit of the second album
C26_Witness ==
    /\ "albums_dedup" \in assigned
    /\ Len(AllAlbums(albums_raw)) = 2
    /\ Credits(AllAlbums(albums_raw)[1]) = <<>>
    /\ Len(Credits(AllAlbums(albums_raw)[2])) = 2
    /\ \E t \in 1..Len(Tracks(AllAlbums(albums_raw)[1])) :
          \E k \in 1..Len(albums_dedup) :
             /\ albums_dedup[k].track_id = Tracks(AllAlbums(albums_raw)[1])[t].id
             /\ albums_dedup[k].artist_id = Credits(AllAlbums(albums_raw)[2])[1].id
             /\ albums_dedup[k].artist_id # Credits(AllAlbums(albums_raw)[2])[2].id

\* the identifiers sent to a batch endpoint so far
SentIds(ep) == UNION {Range(sent[ep][k].ids) : k \in 1..Len(sent[ep])}
\* the track ids that only albums without artist credit contain
UncreditedOnly(als) ==
    {TrackIdAt(als, at) : at \in NestedTracks(als, FALSE)}
        \ {TrackIdAt(als, at) : at \in NestedTracks(als, TRUE)}

\* C28: an album without artist credit (no artists list, or an empty one) gives no
\* row in albums_df whatever its tracks; the track ids that only such albums contain
\* are absent from the deduplicated table and are never sent to the audio-feature
\* lookup or to the track lookup.
C28_UncreditedAlbumDropped ==
    LET als == AllAlbums(albums_raw)
        uncredited == {als[a].id : a \in {b \in 1..Len(als) : Credits(als[b]) = <<>>}}
        lost == UncreditedOnly(als)
    IN  /\ "albums_flat" \in assigned =>
              \A r \in 1..Len(albums_flat) : albums_flat[r].album_id \notin uncredited
        /\ "albums_dedup" \in assigned =>
              \A r \in 1..Len(albums_dedup) : albums_dedup[r].track_id \notin lost
        /\ "albums_raw" \in assigned =>
              /\ SentIds("features") \cap lost = {}
              /\ SentIds("tracks") \cap lost = {}

\* the run has looked up features and tracks; one album had two tracks and no
\* artists list, and one of its tracks is in no credited album
C28_Witness ==
    /\ "track_data" \in assigned
    /\ sent["features"] # <<>> /\ sent["tracks"] # <<>>
    /\ \E a \in 1..Len(AllAlbums(albums_raw)) :
          /\ "artists" \notin DOMAIN AllAlbums(albums_raw)[a]
          /\ Len(Tracks(AllAlbums(albums_raw)[a])) = 2
          /\ \E t \in 1..2 : TrackIdAt(AllAlbums(albums_raw), <<a, t>>) \in
                                 UncreditedOnly(AllAlbums(albums_raw))

\* a track of an album with an artist credit has no id
IdLess(als) == \E at \in NestedTracks(als, TRUE) : "id" \notin DOMAIN Tracks(als[at[1]])[at[2]]

\* C30: the tracks without an id are flattened with the empty string as track id, and
\* all of them, across all albums, become one row after deduplication, the first one
\* flattened; the empty string is then among the identifiers sent to the
\* audio-feature lookup and to the track lookup.
C30_EmptyTrackId ==
    LET als == AllAlbums(albums_raw)
        blank == SelectSeq(albums_dedup, LAMBDA row : row.track_id = <<>>)
    IN  /\ ("albums_dedup" \in assigned /\ IdLess(als)) =>
              /\ Len(blank) = 1
              /\ blank[1] = albums_flat[FirstIndex(albums_flat, <<>>)]
        /\ ("track_ids" \in assigned /\ IdLess(als)) => <<>> \in Range(track_ids)
        /\ ("features_data" \in assigned /\ IdLess(als)) => <<>> \in SentIds("features")
        /\ ("track_data" \in assigned /\ IdLess(als)) => <<>> \in SentIds("tracks")

\* several tracks of several albums had no id: one row with the empty track id was
\* kept beside rows with an id, and both lookups were sent the empty string
C30_Witness ==
    /\ "track_data" \in assigned
    /\ Cardinality({k \in 1..Len(albums_flat) : albums_flat[k].track_id = <<>>}) > 2
    /\ Cardinality({albums_flat[k].album_id : k \in {j \in 1..Len(albums_flat) :
                                                  albums_flat[j].track_id = <<>>}}) > 1
    /\ Len(albums_dedup) > 1
    /\ <<>> \in SentIds("features") \cap SentIds("tracks")

\* C29: in the initial load no provisioning or workspace step ends the run: after
\* each of them (failed or not) main() goes on with the next step, and a run
\* that got past the default credentials makes its four writes and both calls
\* of the trigger
C29_ProvisioningAbsorbed ==
    /\ [][(script = "initial" /\ pc = "provision")
            => pc' \in {"provision", MainNext("provision")}]_vars
    /\ [](script = "initial" /\ pc = "finished"
            => /\ prov = Len(ProvisionSteps)
               /\ Len(attempts) = Len(table_names)
               /\ Len(Calls("create_compilation_result")) = 1
               /\ Len(Calls("create_workflow_invocation")) = 1)

\* the call of the function has ended, after the call of the method
SecondEnded == pair.on /\ pair.impl = "function" /\ CallEnded
\* the method asked for a token of its own and was granted it
OwnTokenGranted == pair.first.asked # <<>> /\ pair.first.asked[1].to = "token"
                   /\ pair.heard.token # <<>> /\ pair.heard.token[1].status = 200

====
